---- MODULE Spec2Model ----
(***************************************************************************)
(* State-machine model of the ATLAS particle viewer's track engine:        *)
(* ParticleTracks (track building, emergence animation, pointer hover and  *)
(* selection, visibility filters) and the part of UIManager that drives    *)
(* the filters.                                                            *)
(*                                                                         *)
(* Units.  Energies and momenta are integers in tenths of a GeV (52.1 GeV  *)
(* is 521).  Opacities are integers in 1/10000 (0.3 is 3000).  Times are   *)
(* integers in milliseconds.  Scales are integers in 1/ScaleOne.           *)
(***************************************************************************)
EXTENDS Integers, Sequences, FiniteSets, TLC

VARIABLES
  tracks,                 \* ParticleTracks.tracks: the track records
  trackObjects,           \* ParticleTracks.trackObjects: the hit-testable visuals
  animatedTracks,         \* ParticleTracks.animatedTracks: {mesh, delay} entries
  tracksGroup,            \* ParticleTracks.tracksGroup.children (visual ids)
  hoveredTrack,           \* ParticleTracks.hoveredTrack (visual id or Null)
  selectedTrack,          \* ParticleTracks.selectedTrack (visual id or Null)
  useSimplifiedRendering, \* ParticleTracks.useSimplifiedRendering
  isAnimating,            \* ParticleTracks.isAnimating
  animationStartTime,     \* ParticleTracks.animationStartTime
  animationProgress,      \* ParticleTracks.animationProgress, in ms of the duration
  pendingFrames,          \* number of queued requestAnimationFrame callbacks of animateFrame
  now,                    \* performance.now()
  cursor,                 \* document.body.style.cursor
  nextId,                 \* identity of the next visual object allocated
  batch,                  \* history: number of batches built so far
  emitted,                \* notifications dispatched by the last operation
  lastOp,                 \* history: the last operation and what it saw
  events,                 \* DataLoader.events (indices into EventPool)
  currentEventIndex,      \* DataLoader.currentEventIndex
  currentEvent,           \* DataLoader.currentEvent (index into EventPool or Null)
  currentFilters,         \* UIManager.currentFilters
  typeCheckboxes,         \* the checkboxes under #particle-type-filters
  inputs,                 \* the values of #min-energy, #max-energy, #min-pt, #max-pt
  notification,           \* the kind of the notification shown last
  isPlaying,              \* ThreeScene.isPlaying
  eventData,              \* the parsed content of the file handed to validateEvent
  validatedEvent,         \* what the last validateEvent call came to
  loadCalls,              \* the loadEvents calls that are awaiting a file
  returned                \* the files and the result of the last loadEvents call that finished

ptVars == <<tracks, trackObjects, animatedTracks, tracksGroup, hoveredTrack,
            selectedTrack, useSimplifiedRendering, isAnimating,
            animationStartTime, animationProgress, pendingFrames, now, cursor,
            nextId, batch, emitted, lastOp>>
\* the state of DataLoader and of UIManager's panel
panelVars == <<events, currentEventIndex, currentEvent, currentFilters,
               typeCheckboxes, inputs, notification>>
\* everything outside ParticleTracks
\* the input and the outcome of DataLoader.validateEvent
loaderVars == <<eventData, validatedEvent, loadCalls, returned>>
uiVars == <<panelVars, isPlaying, loaderVars>>
vars == <<ptVars, uiVars>>

(***************************************************************************)
(* Bounds of the model                                                     *)
(***************************************************************************)
MaxLoads == 2        \* track batches built in one behaviour
MaxTime == 5000      \* the clock stops advancing here
MaxPending == 2      \* queued animation-frame callbacks
MaxCalls == 2        \* loadEvents calls in flight together
BigCount == 501      \* particle count of the high-multiplicity event

(***************************************************************************)
(* JavaScript values that are not always numbers                           *)
(***************************************************************************)
Null == 0
Num(n) == [t |-> "num", v |-> n]
Undefined == [t |-> "undefined", v |-> 0]
NaN == [t |-> "NaN", v |-> 0]
Infinity == 1000000000

Min(a, b) == IF a <= b THEN a ELSE b
Max(a, b) == IF a >= b THEN a ELSE b

\* Math.sqrt, rounded down to an integer (exact on perfect squares, which
\* the momenta of the model are chosen to give); found by bisection
RECURSIVE SqrtIn(_, _, _)
SqrtIn(n, lo, hi) ==
  IF lo >= hi THEN lo
  ELSE LET mid == (lo + hi + 1) \div 2
       IN IF mid * mid <= n THEN SqrtIn(n, mid, hi) ELSE SqrtIn(n, lo, mid - 1)

Sqrt(n) == SqrtIn(n, 0, Min(n, 46340))

(***************************************************************************)
(* PARTICLE_CONFIG                                                         *)
(***************************************************************************)
OpacityOne == 10000
HighlightColor == 16777215     \* 0xFFFFFF
SelectEmissive == 3355443      \* 0x333333

KnownTypes == {"electron", "muon", "photon"}

PARTICLE_CONFIG ==
  [electron |-> [color |-> 65280,    thickness |-> 25],
   muon     |-> [color |-> 16711680, thickness |-> 30],
   photon   |-> [color |-> 16776960, thickness |-> 20],
   unknown  |-> [color |-> 13421772, thickness |-> 15]]

\* PARTICLE_CONFIG[particle.type] || PARTICLE_CONFIG.unknown
ConfigOf(type) ==
  IF type \in KnownTypes THEN PARTICLE_CONFIG[type] ELSE PARTICLE_CONFIG.unknown

\* ParticleTracks.maxTracks: the performance limit of loadTracks
maxTracks == 500

(***************************************************************************)
(* Events the viewer is given                                              *)
(***************************************************************************)
Pt(x, y, z) == [x |-> x, y |-> y, z |-> z]

\* a straight trajectory of n points
Line(n) == [i \in 1..n |-> Pt(i - 1, 0, i - 1)]

Particle(id, type, px, py, pz, E, traj) ==
  [id |-> id, type |-> type, px |-> px, py |-> py, pz |-> pz, E |-> E,
   trajectory |-> traj]

EventPool ==
  << \* 1: two tracks; the muon carries 1200 GeV
     [event_id |-> "A", vertex |-> Pt(0, 0, 0),
      particles |-> << Particle(1, "electron", 30, 40, 120, 521, Line(3)),
                       Particle(2, "muon", 60, 80, 0, 12000, Line(3)) >>],
     \* 2: a faint photon, a particle of a type outside the table, and a
     \*    particle at rest whose trajectory is a single point
     [event_id |-> "B", vertex |-> Pt(1, 0, 0),
      particles |-> << Particle(1, "photon", 0, 50, 0, 100, Line(4)),
                       Particle(2, "tau", 80, 60, 0, 300, Line(2)),
                       Particle(3, "electron", 0, 0, 0, 5, Line(1)) >>],
     \* 3: more than maxTracks particles; one long and one short trajectory,
     \*    all others at rest with a single-point trajectory
     [event_id |-> "H", vertex |-> Pt(0, 0, 0),
      particles |-> [i \in 1..BigCount |->
         IF i = 1 THEN Particle(1, "muon", 300, 400, 0, 2000, Line(12))
         ELSE IF i = 2 THEN Particle(2, "electron", 60, 80, 0, 200, Line(3))
         ELSE Particle(i, "photon", 0, 0, 0, 1, Line(1))]],
     \* 4: exactly maxTracks particles, the first with a long trajectory and
     \*    150 GeV/c, the second with 75 GeV/c
     [event_id |-> "F", vertex |-> Pt(0, 0, 0),
      particles |-> [i \in 1..maxTracks |->
         IF i = 1 THEN Particle(1, "muon", 900, 1200, 0, 2000, Line(12))
         ELSE IF i = 2 THEN Particle(2, "electron", 450, 600, 0, 800, Line(3))
         ELSE Particle(i, "photon", 0, 0, 0, 1, Line(1))]],
     \* 5: what parseCSV returns for a file with the one row
     \*    1,electron,5.0,0,0,5.2: never validated, so the particle has no
     \*    derived field; its trajectory is generateSimpleTrajectory's, six
     \*    points one unit apart along the momentum
     [event_id |-> "csv-import", vertex |-> Pt(0, 0, 0),
      particles |-> << Particle(1, "electron", 50, 0, 0, 52,
                                [i \in 1..6 |-> Pt(i - 1, 0, 0)]) >>] >>

\* the validated events
EventIds == {e \in 1..Len(EventPool) : EventPool[e].event_id # "csv-import"}
\* the events the filter panel is exercised with
PanelEvents == {e \in EventIds : EventPool[e].event_id \in {"A", "B", "H"}}

(***************************************************************************)
(* ParticleTracks: program constants                                       *)
(***************************************************************************)
animationDuration == 2000
MaxDelay == 500                \* delay: Math.random() * 500
TimeRes == 10                  \* every time of the model is a multiple of it
ScaleOne == (animationDuration \div TimeRes) * (animationDuration \div TimeRes)
            * (animationDuration \div TimeRes)
ArrowOpacity == 9000           \* 0.9
LineOpacity == 8000            \* 0.8

\* the start delays Math.random() * 500 is drawn from
Delays == {0, 250}
\* the amounts of time that pass between two observations of the clock
TimeSteps == {500, 1000}
\* one delay and one long frame, for the specifications that are not about
\* the course of the animation
CoarseDelays == {250}
CoarseSteps == {2500}

(***************************************************************************)
(* ParticleTracks: building the visuals                                    *)
(***************************************************************************)
\* Math.min(particle.E / 100, 1) * 0.7 + 0.3
energyAlpha(E) == Min(E, 1000) * 7 + 3000

\* a thickness that keeps growing with the momentum
ThicknessUncapped(base, momentum) == base * (500 + momentum)

\* baseThickness * (0.5 + Math.min(momentum / 50, 2) * 0.5), in 1/10000
Thickness(base, momentum) == base * (500 + Min(momentum, 1000))

\* the indices i = 0, step, 2*step, ... < n of the sampling loop (1-based here)
RECURSIVE SampleFrom(_, _, _)
SampleFrom(i, step, n) ==
  IF i >= n THEN <<>> ELSE <<i + 1>> \o SampleFrom(i + step, step, n)

\* the points createSimplifiedTrack puts into the line geometry
simplifiedPoints(trajectory) ==
  LET n == Len(trajectory)
      step == Max(1, n \div 8)
      idx == SampleFrom(0, step, n)
      sampled == [k \in 1..Len(idx) |-> trajectory[idx[k]]]
  IN IF Len(sampled) > 0 THEN Append(sampled, trajectory[n]) ELSE sampled

\* the fields of ParticleTracks that a build and a clear work on
Batch ==
  [tracks |-> tracks, trackObjects |-> trackObjects,
   animatedTracks |-> animatedTracks, tracksGroup |-> tracksGroup,
   hoveredTrack |-> hoveredTrack, selectedTrack |-> selectedTrack,
   nextId |-> nextId]

\* createDirectionArrow: a cone at the last point; its userData holds no
\* originalColor and no originalOpacity
createDirectionArrow(b, trackData, points) ==
  IF Len(points) < 2 THEN b
  ELSE
    LET arrow == [id |-> b.nextId, kind |-> "arrow",
                  material |-> "MeshLambertMaterial",
                  color |-> trackData.config.color,
                  opacity |-> Num(ArrowOpacity), emissive |-> 0,
                  visible |-> TRUE, scale |-> ScaleOne,
                  particle |-> trackData.particle, trackData |-> Len(b.tracks),
                  originalColor |-> Undefined, originalOpacity |-> Undefined,
                  isArrow |-> TRUE, points |-> <<points[Len(points)]>>,
                  thickness |-> 0]
    IN [b EXCEPT !.trackObjects = Append(@, arrow),
                 !.tracksGroup = Append(@, arrow.id),
                 !.nextId = @ + 1]

\* createDetailedTrack: a tube mesh, an animation entry, and the arrow
createDetailedTrack(b, trackData, delay) ==
  LET points == trackData.trajectory
      alpha == energyAlpha(trackData.particle.E)
      mesh == [id |-> b.nextId, kind |-> "mesh",
               material |-> "MeshLambertMaterial",
               color |-> trackData.config.color,
               opacity |-> Num(alpha), emissive |-> 0,
               visible |-> TRUE, scale |-> ScaleOne,
               particle |-> trackData.particle, trackData |-> Len(b.tracks),
               originalColor |-> Num(trackData.config.color),
               originalOpacity |-> Num(alpha),
               isArrow |-> FALSE, points |-> points,
               thickness |-> Thickness(trackData.config.thickness,
                                       trackData.momentum)]
      b1 == [b EXCEPT !.animatedTracks =
                          Append(@, [mesh |-> mesh.id, originalScale |-> ScaleOne,
                                     delay |-> delay]),
                      !.trackObjects = Append(@, mesh),
                      !.tracksGroup = Append(@, mesh.id),
                      !.nextId = @ + 1]
  IN createDirectionArrow(b1, trackData, points)

\* createSimplifiedTrack: a poly-line with a LineBasicMaterial, which has
\* no emissive colour; it gets no animation entry and no arrow
createSimplifiedTrack(b, trackData) ==
  LET line == [id |-> b.nextId, kind |-> "line",
               material |-> "LineBasicMaterial",
               color |-> trackData.config.color,
               opacity |-> Num(LineOpacity), emissive |-> 0,
               visible |-> TRUE, scale |-> ScaleOne,
               particle |-> trackData.particle, trackData |-> Len(b.tracks),
               originalColor |-> Num(trackData.config.color),
               originalOpacity |-> Num(LineOpacity),
               isArrow |-> FALSE,
               points |-> simplifiedPoints(trackData.trajectory),
               thickness |-> 0]
  IN [b EXCEPT !.trackObjects = Append(@, line),
               !.tracksGroup = Append(@, line.id),
               !.nextId = @ + 1]

\* a createParticleTrack that returns early only on an empty trajectory
createParticleTrackKeepsShort(b, particle, index, simplified, delay) ==
  LET config == ConfigOf(particle.type)
      trajectory == particle.trajectory
  IN IF Len(trajectory) < 1 THEN b
     ELSE
       LET pt == Sqrt(particle.px * particle.px + particle.py * particle.py)
           momentum == Sqrt(particle.px * particle.px + particle.py * particle.py
                            + particle.pz * particle.pz)
           trackData == [particle |-> particle, config |-> config,
                         trajectory |-> trajectory, pt |-> pt,
                         momentum |-> momentum, index |-> index]
           b1 == [b EXCEPT !.tracks = Append(@, trackData)]
       IN IF simplified /\ Len(trajectory) > 10
          THEN createSimplifiedTrack(b1, trackData)
          ELSE createDetailedTrack(b1, trackData, delay)

\* createParticleTrack(particle, vertex, index); index is the 0-based
\* position in the event, delay the value Math.random() * 500 would give
createParticleTrack(b, particle, index, simplified, delay) ==
  LET config == ConfigOf(particle.type)
      trajectory == particle.trajectory
  IN IF Len(trajectory) < 2 THEN b
     ELSE
       LET pt == Sqrt(particle.px * particle.px + particle.py * particle.py)
           momentum == Sqrt(particle.px * particle.px + particle.py * particle.py
                            + particle.pz * particle.pz)
           trackData == [particle |-> particle, config |-> config,
                         trajectory |-> trajectory, pt |-> pt,
                         momentum |-> momentum, index |-> index]
           b1 == [b EXCEPT !.tracks = Append(@, trackData)]
       IN IF simplified /\ Len(trajectory) > 10
          THEN createSimplifiedTrack(b1, trackData)
          ELSE createDetailedTrack(b1, trackData, delay)

\* the positions (1-based, increasing) of the particles createParticleTrack
\* does not return early on
RECURSIVE Ascending(_)
Ascending(S) ==
  IF S = {} THEN <<>>
  ELSE LET m == CHOOSE x \in S : \A y \in S : x <= y
       IN <<m>> \o Ascending(S \ {m})

Renderable(particles) ==
  Ascending({i \in 1..Len(particles) : Len(particles[i].trajectory) >= 2})

\* particles.forEach((particle, index) => createParticleTrack(...)); ds[n] is
\* the random delay drawn for the n-th particle that gets a track record
\* (the particles lo..hi in turn: the first half of the range, then the
\* second half on what the first half built)
RECURSIVE createAll(_, _, _, _, _, _)
createAll(b, particles, lo, hi, simplified, ds) ==
  IF lo > hi THEN b
  ELSE IF lo = hi
  THEN createParticleTrack(b, particles[lo], lo - 1, simplified,
                           IF Len(b.tracks) < Len(ds)
                           THEN ds[Len(b.tracks) + 1] ELSE 0)
  ELSE LET first == createAll(b, particles, lo, (lo + hi) \div 2,
                              simplified, ds)
       IN IF first.nextId >= b.nextId
          THEN createAll(first, particles, (lo + hi) \div 2 + 1, hi,
                         simplified, ds)
          ELSE first

(***************************************************************************)
(* ParticleTracks: the emergence animation                                 *)
(***************************************************************************)
Cube(q) == q * q * q

\* easeOutCubic(t) = 1 - (1 - t)^3, for t = p / animationDuration
easeOutCubic(p) == ScaleOne - Cube((animationDuration - p) \div TimeRes)

Position(objs, id) ==
  IF \E i \in 1..Len(objs) : objs[i].id = id
  THEN CHOOSE i \in 1..Len(objs) : objs[i].id = id
  ELSE 0

Ids(objs) == {objs[i].id : i \in 1..Len(objs)}

DelayOf(anim, id) ==
  anim[CHOOSE k \in 1..Len(anim) : anim[k].mesh = id].delay

\* easedProgress * originalScale of an entry with this delay
scaleAt(elapsed, delay) ==
  easeOutCubic(Min(Max(0, elapsed - delay), animationDuration))

\* animateFrame's loop: track.mesh.scale.setScalar(scale) for every entry of
\* animatedTracks
setScales(objs, anim, elapsed) ==
  [i \in 1..Len(objs) |->
     IF \E k \in 1..Len(anim) : anim[k].mesh = objs[i].id
     THEN [objs[i] EXCEPT !.scale = scaleAt(elapsed, DelayOf(anim, objs[i].id))]
     ELSE objs[i]]

\* startAnimation's loop: track.mesh.scale.setScalar(0)
zeroScales(objs, anim) ==
  [i \in 1..Len(objs) |->
     IF \E k \in 1..Len(anim) : anim[k].mesh = objs[i].id
     THEN [objs[i] EXCEPT !.scale = 0]
     ELSE objs[i]]

\* the state one call of animateFrame() works on
AnimState(objs, animating, progress, pending, out) ==
  [objs |-> objs, isAnimating |-> animating, progress |-> progress,
   pending |-> pending, emitted |-> out]

\* an animateFrame that does not return when no animation is running
animateFrameUnguarded(a, anim, startTime, t) ==
  LET elapsed == t - startTime
      progress == Min(elapsed, animationDuration)
      objs == setScales(a.objs, anim, elapsed)
  IN IF progress < animationDuration
     THEN [a EXCEPT !.objs = objs, !.progress = progress,
                    !.pending = @ + 1]
     ELSE [a EXCEPT !.objs = objs, !.progress = progress,
                    !.isAnimating = FALSE,
                    !.emitted = Append(@, [type |-> "trackAnimationComplete",
                                           particle |-> Null])]

\* an animateFrame that asks for another frame whatever the progress is
animateFrameNeverEnds(a, anim, startTime, t) ==
  IF ~a.isAnimating THEN a
  ELSE [a EXCEPT !.objs = setScales(a.objs, anim, t - startTime),
                 !.progress = Min(t - startTime, animationDuration),
                 !.pending = @ + 1]

\* animateFrame(), called at time t
animateFrame(a, anim, startTime, t) ==
  IF ~a.isAnimating THEN a
  ELSE
    LET elapsed == t - startTime
        progress == Min(elapsed, animationDuration)
        objs == setScales(a.objs, anim, elapsed)
    IN IF progress < animationDuration
       THEN [a EXCEPT !.objs = objs, !.progress = progress,
                      !.pending = @ + 1]
       ELSE [a EXCEPT !.objs = objs, !.progress = progress,
                      !.isAnimating = FALSE,
                      !.emitted = Append(@, [type |-> "trackAnimationComplete",
                                             particle |-> Null])]

\* startAnimation(), called at time t
startAnimation(a, anim, startTime, t) ==
  IF Len(anim) = 0 THEN [st |-> a, startTime |-> startTime]
  ELSE
    LET a1 == [a EXCEPT !.isAnimating = TRUE, !.progress = 0,
                        !.objs = zeroScales(a.objs, anim)]
    IN [st |-> animateFrame(a1, anim, t, t), startTime |-> t]

\* the queued callbacks () => this.animateFrame() of one frame, run in turn
RECURSIVE RunCallbacks(_, _, _, _, _)
RunCallbacks(a, n, anim, startTime, t) ==
  IF n = 0 THEN a
  ELSE RunCallbacks(animateFrame(a, anim, startTime, t), n - 1, anim,
                    startTime, t)

\* history record of an operation: its name, the visual the pointer ray
\* resolved to, and whether the handler ended in an exception
Seen(name, hit, threw) == [op |-> name, hit |-> hit, threw |-> threw]
NoOp(name) == Seen(name, Null, FALSE)

\* the browser delivers an animation frame dt after the previous observation
\* of the clock: every callback queued by requestAnimationFrame runs
AnimationFrame(dt) ==
  /\ pendingFrames > 0
  /\ now + dt <= MaxTime
  /\ LET t == now + dt
         a == RunCallbacks(AnimState(trackObjects, isAnimating,
                                     animationProgress, 0, <<>>),
                           pendingFrames, animatedTracks,
                           animationStartTime, t)
     IN /\ now' = t
        /\ trackObjects' = a.objs
        /\ isAnimating' = a.isAnimating
        /\ animationProgress' = a.progress
        /\ pendingFrames' = a.pending
        /\ emitted' = a.emitted
  /\ lastOp' = NoOp("animationFrame")
  /\ UNCHANGED <<tracks, animatedTracks, tracksGroup, hoveredTrack,
                 selectedTrack, useSimplifiedRendering, animationStartTime,
                 cursor, nextId, batch>>

\* time passes without a frame being delivered
Tick(dt) ==
  /\ now + dt <= MaxTime
  /\ now' = now + dt
  /\ UNCHANGED <<tracks, trackObjects, animatedTracks, tracksGroup,
                 hoveredTrack, selectedTrack, useSimplifiedRendering,
                 isAnimating, animationStartTime, animationProgress,
                 pendingFrames, cursor, nextId, batch, emitted, lastOp>>

\* handleAnimationToggle that starts the animation whenever it is told to
\* play, also during a run
handleAnimationToggleRestarts(a, playing, anim, startTime, t) ==
  IF playing
  THEN startAnimation(a, anim, startTime, t)
  ELSE [st |-> a, startTime |-> startTime]

\* handleAnimationToggle(event), event.detail.isPlaying being `playing`
handleAnimationToggle(a, playing, anim, startTime, t) ==
  IF playing /\ ~a.isAnimating
  THEN startAnimation(a, anim, startTime, t)
  ELSE [st |-> a, startTime |-> startTime]

\* the fields handleAnimationToggle leaves, s being what it came to
ToggledAnimation(s) ==
  /\ trackObjects' = s.st.objs
  /\ isAnimating' = s.st.isAnimating
  /\ animationProgress' = s.st.progress
  /\ pendingFrames' = s.st.pending
  /\ animationStartTime' = s.startTime
  /\ emitted' = s.st.emitted

\* ThreeScene.toggleAnimation() (Space key, play/pause button): flips
\* isPlaying and dispatches 'animationToggle', which ParticleTracks handles
ToggleAnimation ==
  /\ isPlaying' = ~isPlaying
  /\ ToggledAnimation(handleAnimationToggle(
         AnimState(trackObjects, isAnimating, animationProgress,
                   pendingFrames, <<>>),
         ~isPlaying, animatedTracks, animationStartTime, now))
  /\ lastOp' = NoOp("handleAnimationToggle")
  /\ UNCHANGED <<tracks, animatedTracks, tracksGroup, hoveredTrack,
                 selectedTrack, useSimplifiedRendering, now, cursor, nextId,
                 batch>>
  /\ UNCHANGED <<panelVars, loaderVars>>

(***************************************************************************)
(* ParticleTracks: clearing and loading                                    *)
(***************************************************************************)
\* a clearTracks that forgets to reset hover and selection
clearTracksKeepsRefs(b) ==
  [b EXCEPT !.tracks = <<>>, !.animatedTracks = <<>>,
            !.tracksGroup = <<>>, !.trackObjects = <<>>]

\* a clearTracks that leaves the visuals in the group and in the list
clearTracksKeepsVisuals(b) ==
  [b EXCEPT !.tracks = <<>>, !.animatedTracks = <<>>,
            !.hoveredTrack = Null, !.selectedTrack = Null]

\* a clearTracks that leaves the animation entries of the cleared batch
clearTracksKeepsAnimated(b) ==
  [b EXCEPT !.tracks = <<>>,
            !.hoveredTrack = Null, !.selectedTrack = Null,
            !.tracksGroup = <<>>, !.trackObjects = <<>>]

\* clearTracks(): empties the arrays, resets hover and selection, removes
\* (and disposes) every child of the tracks group
clearTracks(b) ==
  [b EXCEPT !.tracks = <<>>, !.animatedTracks = <<>>,
            !.hoveredTrack = Null, !.selectedTrack = Null,
            !.tracksGroup = <<>>, !.trackObjects = <<>>]

ClearTracks ==
  /\ LET b == clearTracks(Batch)
     IN /\ tracks' = b.tracks
        /\ animatedTracks' = b.animatedTracks
        /\ tracksGroup' = b.tracksGroup
        /\ trackObjects' = b.trackObjects
        /\ hoveredTrack' = b.hoveredTrack
        /\ selectedTrack' = b.selectedTrack
  /\ emitted' = <<>>
  /\ lastOp' = NoOp("clearTracks")
  /\ UNCHANGED <<useSimplifiedRendering, isAnimating, animationStartTime,
                 animationProgress, pendingFrames, now, cursor, nextId, batch>>

\* number of random delays a build of these particles draws
NumRendered(particles) == Len(Renderable(particles))

\* loadTracks(particles, vertex): the values of the ParticleTracks fields
\* when it returns; ds are the random delays drawn during the build
\* b is the batch built, s what startAnimation() returned
loadTracksResult(b, s, simplified) ==
  [tracks |-> b.tracks, animatedTracks |-> b.animatedTracks,
   tracksGroup |-> b.tracksGroup, nextId |-> b.nextId,
   hoveredTrack |-> b.hoveredTrack, selectedTrack |-> b.selectedTrack,
   useSimplifiedRendering |-> simplified, trackObjects |-> s.st.objs,
   isAnimating |-> s.st.isAnimating, animationProgress |-> s.st.progress,
   pendingFrames |-> s.st.pending, animationStartTime |-> s.startTime,
   emitted |-> s.st.emitted]

\* the last statement of loadTracks: this.startAnimation()
loadTracksStart(b, simplified) ==
  loadTracksResult(b,
                   startAnimation(AnimState(b.trackObjects, isAnimating,
                                            animationProgress, pendingFrames,
                                            <<>>),
                                  b.animatedTracks, animationStartTime, now),
                   simplified)

\* a loadTracks that turns simplified rendering on at maxTracks particles
loadTracksAtLimit(particles, ds) ==
  loadTracksStart(createAll(clearTracks(Batch), particles,
                            1, Len(particles),
                            Len(particles) >= maxTracks, ds),
                  Len(particles) >= maxTracks)

loadTracks(particles, ds) ==
  loadTracksStart(createAll(clearTracks(Batch), particles,
                            1, Len(particles),
                            Len(particles) > maxTracks, ds),
                  Len(particles) > maxTracks)

\* getTrackCount() and getVisibleTrackCount()
getTrackCount == Len(tracks)
getVisibleTrackCount ==
  Cardinality({i \in 1..Len(trackObjects) : trackObjects[i].visible})

\* the fields a load leaves, but for trackObjects
Loaded(r) ==
  /\ tracks' = r.tracks
  /\ animatedTracks' = r.animatedTracks
  /\ tracksGroup' = r.tracksGroup
  /\ nextId' = r.nextId
  /\ hoveredTrack' = r.hoveredTrack
  /\ selectedTrack' = r.selectedTrack
  /\ useSimplifiedRendering' = r.useSimplifiedRendering
  /\ isAnimating' = r.isAnimating
  /\ animationProgress' = r.animationProgress
  /\ pendingFrames' = r.pendingFrames
  /\ animationStartTime' = r.animationStartTime
  /\ emitted' = r.emitted
  /\ batch' = batch + 1
  /\ UNCHANGED <<now, cursor>>

\* the model builds at most MaxLoads batches and queues at most MaxPending
\* frame callbacks
CanLoad == batch < MaxLoads /\ pendingFrames < MaxPending

\* every field a load on its own leaves
LoadedTracks(r) == Loaded(r) /\ trackObjects' = r.trackObjects

LoadTracks(e, D) ==
  /\ CanLoad
  /\ \E ds \in [1..NumRendered(EventPool[e].particles) -> D] :
       LoadedTracks(loadTracks(EventPool[e].particles, ds))
  /\ lastOp' = NoOp("loadTracks")

(***************************************************************************)
(* ParticleTracks: hover and selection                                     *)
(***************************************************************************)
\* material.color.setHex(h): Math.floor(undefined) is NaN, and NaN >> 16 is 0
setHex(h) == IF h.t = "num" THEN h.v ELSE 0

\* Math.min(originalOpacity + 0.3, 1.0)
boosted(orig) ==
  IF orig.t = "num" THEN Num(Min(orig.v + 3000, OpacityOne)) ELSE NaN

Outcome(objs, threw) == [objs |-> objs, threw |-> threw]

\* resetTrackAppearance(trackMesh): colour and opacity from userData, then
\* material.emissive.setHex(0x000000), a TypeError on a material without
\* an emissive colour
resetTrackAppearance(objs, id) ==
  LET i == Position(objs, id)
  IN IF i = 0 THEN Outcome(objs, FALSE)
     ELSE
       LET o == objs[i]
           o1 == [o EXCEPT !.color = setHex(o.originalColor),
                           !.opacity = o.originalOpacity]
       IN IF o.material = "LineBasicMaterial"
          THEN Outcome([objs EXCEPT ![i] = o1], TRUE)
          ELSE Outcome([objs EXCEPT ![i] = [o1 EXCEPT !.emissive = 0]], FALSE)

\* highlightTrack(trackMesh, isSelected)
highlightTrack(objs, id, isSelected) ==
  LET i == Position(objs, id)
  IN IF i = 0 THEN Outcome(objs, FALSE)
     ELSE
       LET o == objs[i]
       IN IF isSelected
          THEN LET o1 == [o EXCEPT !.color = HighlightColor,
                                   !.opacity = Num(OpacityOne)]
               IN IF o.material = "LineBasicMaterial"
                  THEN Outcome([objs EXCEPT ![i] = o1], TRUE)
                  ELSE Outcome([objs EXCEPT ![i] =
                                  [o1 EXCEPT !.emissive = SelectEmissive]],
                               FALSE)
          ELSE Outcome([objs EXCEPT ![i] =
                          [o EXCEPT !.color = HighlightColor,
                                    !.opacity = boosted(o.originalOpacity)]],
                       FALSE)

\* the registered visuals a ray can pass through: those that have an extent
\* (a visual scaled to 0 has none)
Targets ==
  {trackObjects[i].id : i \in {j \in 1..Len(trackObjects) :
                                 trackObjects[j].scale > 0}}
\* the pointer's ray: through no visual, or through one
Rays == {<<>>} \cup {<<a>> : a \in Targets}

\* raycaster.intersectObjects(this.trackObjects): the objects of the list
\* the ray passes through, nearest first.  Raycaster tests an object's
\* layers, never its visible flag, and the list is passed unfiltered.
RECURSIVE intersectObjects(_, _)
intersectObjects(ray, objs) ==
  IF ray = <<>> THEN <<>>
  ELSE IF Head(ray) \in Ids(objs)
       THEN <<Head(ray)>> \o intersectObjects(Tail(ray), objs)
       ELSE intersectObjects(Tail(ray), objs)

ParticleOf(objs, id) == objs[Position(objs, id)].particle.id

\* handleMouseMove(event) for a pointer sample whose ray is `ray`
handleMouseMove(ray) ==
  LET intersects == intersectObjects(ray, trackObjects)
      hit == IF Len(intersects) > 0 THEN intersects[1] ELSE Null
      r1 == IF hoveredTrack # Null /\ hoveredTrack # selectedTrack
            THEN resetTrackAppearance(trackObjects, hoveredTrack)
            ELSE Outcome(trackObjects, FALSE)
  IN IF r1.threw
     THEN /\ trackObjects' = r1.objs
          /\ emitted' = <<>>
          /\ lastOp' = Seen("handleMouseMove", hit, TRUE)
          /\ UNCHANGED <<hoveredTrack, cursor>>
     ELSE IF hit # Null
     THEN LET r2 == highlightTrack(r1.objs, hit, FALSE)
          IN /\ hoveredTrack' = hit
             /\ trackObjects' = r2.objs
             /\ cursor' = "pointer"
             /\ emitted' = <<[type |-> "particleHover",
                              particle |-> ParticleOf(trackObjects, hit)]>>
             /\ lastOp' = Seen("handleMouseMove", hit, FALSE)
     ELSE /\ hoveredTrack' = Null
          /\ trackObjects' = r1.objs
          /\ cursor' = "default"
          /\ emitted' = <<[type |-> "particleHoverEnd", particle |-> Null]>>
          /\ lastOp' = Seen("handleMouseMove", hit, FALSE)

HandleMouseMove(ray) ==
  /\ handleMouseMove(ray)
  /\ UNCHANGED <<tracks, animatedTracks, tracksGroup, selectedTrack,
                 useSimplifiedRendering, isAnimating, animationStartTime,
                 animationProgress, pendingFrames, now, nextId, batch>>

\* handleClick(event) for a click whose ray is `ray`
handleClick(ray) ==
  LET intersects == intersectObjects(ray, trackObjects)
      hit == IF Len(intersects) > 0 THEN intersects[1] ELSE Null
      r1 == IF selectedTrack # Null
            THEN resetTrackAppearance(trackObjects, selectedTrack)
            ELSE Outcome(trackObjects, FALSE)
  IN IF r1.threw
     THEN /\ trackObjects' = r1.objs
          /\ emitted' = <<>>
          /\ lastOp' = Seen("handleClick", hit, TRUE)
          /\ UNCHANGED selectedTrack
     ELSE IF hit # Null
     THEN LET r2 == highlightTrack(r1.objs, hit, TRUE)
          IN /\ selectedTrack' = hit
             /\ trackObjects' = r2.objs
             /\ emitted' = IF r2.threw THEN <<>>
                           ELSE <<[type |-> "particleSelect",
                                   particle |-> ParticleOf(trackObjects, hit)]>>
             /\ lastOp' = Seen("handleClick", hit, r2.threw)
     ELSE /\ selectedTrack' = Null
          /\ trackObjects' = r1.objs
          /\ emitted' = <<[type |-> "particleDeselect", particle |-> Null]>>
          /\ lastOp' = Seen("handleClick", hit, FALSE)

HandleClick(ray) ==
  /\ handleClick(ray)
  /\ UNCHANGED <<tracks, animatedTracks, tracksGroup, hoveredTrack,
                 useSimplifiedRendering, isAnimating, animationStartTime,
                 animationProgress, pendingFrames, now, cursor, nextId,
                 batch>>

(***************************************************************************)
(* ParticleTracks: visibility filters                                      *)
(***************************************************************************)
Includes(seq, x) == \E i \in 1..Len(seq) : seq[i] = x

\* filterByType without the empty-list case: an empty list hides every visual
filterByTypeEmptyHidesAll(objs, particleTypes) ==
  [i \in 1..Len(objs) |->
     [objs[i] EXCEPT !.visible = Includes(particleTypes, objs[i].particle.type)]]

\* a filterByType that also gives a visual it hides its original colour and
\* opacity back
filterByTypeRevertsHidden(objs, particleTypes) ==
  [i \in 1..Len(objs) |->
     IF Len(particleTypes) = 0 \/ Includes(particleTypes, objs[i].particle.type)
     THEN [objs[i] EXCEPT !.visible = TRUE]
     ELSE [objs[i] EXCEPT !.visible = FALSE,
                          !.color = setHex(objs[i].originalColor),
                          !.opacity = objs[i].originalOpacity]]

\* filterByType(particleTypes)
filterByType(objs, particleTypes) ==
  [i \in 1..Len(objs) |->
     [objs[i] EXCEPT !.visible = Len(particleTypes) = 0
                                 \/ Includes(particleTypes, objs[i].particle.type)]]

\* filterByEnergy assigning the range result instead of combining it with
\* the current flag
filterByEnergyOverwrites(objs, minEnergy, maxEnergy) ==
  [i \in 1..Len(objs) |->
     [objs[i] EXCEPT !.visible = (objs[i].particle.E >= minEnergy
                                  /\ objs[i].particle.E <= maxEnergy)]]

\* filterByEnergy(minEnergy, maxEnergy)
filterByEnergy(objs, minEnergy, maxEnergy) ==
  [i \in 1..Len(objs) |->
     [objs[i] EXCEPT !.visible = @ /\ (objs[i].particle.E >= minEnergy
                                       /\ objs[i].particle.E <= maxEnergy)]]

\* filterByPt(minPt, maxPt); trks are the track records userData.trackData
\* refers to
filterByPt(objs, trks, minPt, maxPt) ==
  [i \in 1..Len(objs) |->
     [objs[i] EXCEPT !.visible = @ /\ (trks[objs[i].trackData].pt >= minPt
                                       /\ trks[objs[i].trackData].pt <= maxPt)]]

TypeLists == {<<>>, <<"muon">>, <<"electron", "photon">>}
EnergyRanges == {<<0, Infinity>>, <<150, Infinity>>, <<0, 10000>>}
PtRanges == {<<0, Infinity>>, <<60, Infinity>>, <<0, 60>>}

FilterFrame ==
  UNCHANGED <<tracks, animatedTracks, tracksGroup, hoveredTrack, selectedTrack,
              useSimplifiedRendering, isAnimating, animationStartTime,
              animationProgress, pendingFrames, now, cursor, nextId, batch>>

FilterByType(types) ==
  /\ trackObjects' = filterByType(trackObjects, types)
  /\ emitted' = <<>>
  /\ lastOp' = NoOp("filterByType")
  /\ FilterFrame

FilterByEnergy(lo, hi) ==
  /\ trackObjects' = filterByEnergy(trackObjects, lo, hi)
  /\ emitted' = <<>>
  /\ lastOp' = NoOp("filterByEnergy")
  /\ FilterFrame

FilterByPt(lo, hi) ==
  /\ trackObjects' = filterByPt(trackObjects, tracks, lo, hi)
  /\ emitted' = <<>>
  /\ lastOp' = NoOp("filterByPt")
  /\ FilterFrame

(***************************************************************************)
(* UIManager and DataLoader: events and the filter controls                *)
(***************************************************************************)
\* a field of type number: a number, or text parseFloat gives NaN for
Field(n) == [t |-> "num", v |-> n]
EmptyField == [t |-> "NaN", v |-> 0]

\* parseFloat(field.value) || dflt: NaN and 0 both give the default
parseOr(field, dflt) == IF field.t = "num" /\ field.v # 0 THEN field.v ELSE dflt

\* [...new Set(currentEvent.particles.map(p => p.type))]: the types in order
\* of first occurrence
uniqueTypes(particles) ==
  LET first == Ascending({i \in 1..Len(particles) :
                            \A j \in 1..(i - 1) :
                               particles[j].type # particles[i].type})
  IN [k \in 1..Len(first) |-> particles[first[k]].type]

\* populateParticleTypeFilters(): one checked checkbox per type of the
\* loader's current event
populateParticleTypeFilters(ev) ==
  IF ev = Null THEN <<>>
  ELSE LET types == uniqueTypes(EventPool[ev].particles)
       IN [k \in 1..Len(types) |-> [value |-> types[k], checked |-> TRUE]]

\* updateStatistics() ends in a TypeError when the statistics hold a type for
\* which getParticleConfig()[type] is undefined (config.color is read), and
\* in getParticleStatistics() when a particle has no derived field
\* (particle.derived.pt is read), as the particles of parseCSV
ConfigKeys == KnownTypes \cup {"unknown"}
updateStatisticsThrows(ev) ==
  /\ ev # Null
  /\ \E i \in 1..Len(EventPool[ev].particles) :
        \/ EventPool[ev].particles[i].type \notin ConfigKeys
        \/ EventPool[ev].event_id = "csv-import"

\* the values of the checked boxes, in document order
RECURSIVE checkedValues(_)
checkedValues(boxes) ==
  IF boxes = <<>> THEN <<>>
  ELSE (IF Head(boxes).checked THEN <<Head(boxes).value>> ELSE <<>>)
       \o checkedValues(Tail(boxes))

\* updateFilters(): reads the controls, stores currentFilters, applies the
\* three filters in order, then updates the statistics
readFilters(boxes, inp) ==
  [types |-> checkedValues(boxes),
   minEnergy |-> parseOr(inp.minEnergy, 0),
   maxEnergy |-> parseOr(inp.maxEnergy, Infinity),
   minPt |-> parseOr(inp.minPt, 0),
   maxPt |-> parseOr(inp.maxPt, Infinity)]

applyFilters(objs, trks, f) ==
  filterByPt(filterByEnergy(filterByType(objs, f.types),
                            f.minEnergy, f.maxEnergy),
             trks, f.minPt, f.maxPt)

\* resetFilters(): what it writes into the controls before updateFilters()
resetBoxes(boxes) == [k \in 1..Len(boxes) |-> [boxes[k] EXCEPT !.checked = TRUE]]
resetInputs ==
  [minEnergy |-> Field(0), maxEnergy |-> Field(10000),
   minPt |-> Field(0), maxPt |-> Field(10000)]

TrackFrame ==
  UNCHANGED <<tracks, animatedTracks, tracksGroup, hoveredTrack, selectedTrack,
              useSimplifiedRendering, isAnimating, animationStartTime,
              animationProgress, pendingFrames, now, cursor, nextId, batch>>

\* updateFilters() run on the controls boxes / inp
UpdateFilters(boxes, inp) ==
  /\ typeCheckboxes' = boxes
  /\ inputs' = inp
  /\ currentFilters' = readFilters(boxes, inp)
  /\ trackObjects' = applyFilters(trackObjects, tracks, readFilters(boxes, inp))
  /\ emitted' = <<>>
  /\ lastOp' = Seen("updateFilters", Null, updateStatisticsThrows(currentEvent))
  /\ TrackFrame
  /\ UNCHANGED <<events, currentEventIndex, currentEvent, notification,
                 isPlaying, loaderVars>>

\* the user checks or unchecks the k-th type box ('change' event)
ToggleType(k) ==
  /\ k \in 1..Len(typeCheckboxes)
  /\ UpdateFilters([typeCheckboxes EXCEPT ![k].checked = ~@], inputs)

\* what the user types into the numeric controls ('input' event)
FieldNames == {"minEnergy", "maxEnergy", "minPt", "maxPt"}
FieldValues(name) ==
  CASE name = "minEnergy" -> {Field(0), Field(150)}
    [] name = "maxEnergy" -> {Field(10000), Field(0), Field(400)}
    [] name = "minPt" -> {Field(0), Field(60)}
    [] name = "maxPt" -> {Field(10000), EmptyField}

EditInput(name, value) ==
  /\ inputs[name] # value
  /\ UpdateFilters(typeCheckboxes, [inputs EXCEPT ![name] = value])

\* loadEventData(event) for the event ev that is the loader's current event:
\* loadTracks, populateParticleTypeFilters, updateStatistics, resetFilters.
\* The record tells how it ended.
\* r is what loadTracks left, boxes the checkboxes just created
loadEventDataThrew(r, boxes) ==
  [load |-> r, objs |-> r.trackObjects, boxes |-> boxes,
   inputs |-> inputs, filters |-> currentFilters, threw |-> TRUE]

\* resetFilters() ends in updateFilters(), which reads the settings f
resetFiltersUpdate(r, boxes, f) ==
  [load |-> r, objs |-> applyFilters(r.trackObjects, r.tracks, f),
   boxes |-> boxes, inputs |-> resetInputs, filters |-> f, threw |-> FALSE]

resetFilters(r, boxes) ==
  resetFiltersUpdate(r, resetBoxes(boxes),
                     readFilters(resetBoxes(boxes), resetInputs))

loadEventData(ev, ds) ==
  IF updateStatisticsThrows(ev)
  THEN loadEventDataThrew(loadTracks(EventPool[ev].particles, ds),
                          populateParticleTypeFilters(ev))
  ELSE resetFilters(loadTracks(EventPool[ev].particles, ds),
                    populateParticleTypeFilters(ev))

LoadedEventData(d) ==
  /\ Loaded(d.load)
  /\ trackObjects' = d.objs
  /\ typeCheckboxes' = d.boxes
  /\ inputs' = d.inputs
  /\ currentFilters' = d.filters
  /\ lastOp' = Seen("loadEventData", Null, d.threw)

\* DataLoader.getEvent(index), 0-based; Null when out of range
getEvent(evs, index) ==
  IF index >= 0 /\ index < Len(evs) THEN evs[index + 1] ELSE Null

\* UIManager.switchToEvent / nextEvent / previousEvent, reduced to the index
\* they switch to
SwitchTo(index) ==
  /\ CanLoad
  /\ getEvent(events, index) # Null
  /\ currentEventIndex' = index
  /\ currentEvent' = getEvent(events, index)
  /\ \E ds \in [1..NumRendered(EventPool[getEvent(events, index)].particles)
                  -> CoarseDelays] :
       LoadedEventData(loadEventData(getEvent(events, index), ds))
  /\ UNCHANGED <<events, notification, isPlaying, loaderVars>>

SwitchToEvent(index) == SwitchTo(index)

NextEvent ==
  /\ Len(events) # 0
  /\ SwitchTo((currentEventIndex + 1) % Len(events))

PreviousEvent ==
  /\ Len(events) # 0
  /\ SwitchTo(IF currentEventIndex = 0 THEN Len(events) - 1
              ELSE currentEventIndex - 1)

\* handleFileUpload(file) for a file whose content validates to event ev, or
\* that parseCSV turns into event ev: the event is pushed and made current,
\* then displayed
UploadedEventData(d) ==
  /\ LoadedEventData(d)
  /\ notification' = IF d.threw THEN "error" ELSE "success"
  /\ UNCHANGED <<isPlaying, loaderVars>>

HandleFileUpload(ev) ==
  /\ CanLoad
  /\ events' = Append(events, ev)
  /\ currentEventIndex' = Len(events)
  /\ currentEvent' = ev
  /\ \E ds \in [1..NumRendered(EventPool[ev].particles) -> CoarseDelays] :
       UploadedEventData(loadEventData(ev, ds))

\* handleFileUpload(file) for a file that loadFromFile / parseCSV rejects or
\* whose format is unsupported: only the error notification
HandleBadUploadDropsSelection ==
  /\ notification' = "error"
  /\ lastOp' = Seen("handleFileUpload", Null, TRUE)
  /\ selectedTrack' = Null
  /\ UNCHANGED <<tracks, trackObjects, animatedTracks, tracksGroup,
                 hoveredTrack, useSimplifiedRendering,
                 isAnimating, animationStartTime, animationProgress,
                 pendingFrames, now, cursor, nextId, batch, emitted>>
  /\ UNCHANGED <<events, currentEventIndex, currentEvent, currentFilters,
                 typeCheckboxes, inputs, isPlaying, loaderVars>>

HandleBadUpload ==
  /\ notification' = "error"
  /\ lastOp' = Seen("handleFileUpload", Null, TRUE)
  /\ UNCHANGED <<tracks, trackObjects, animatedTracks, tracksGroup,
                 hoveredTrack, selectedTrack, useSimplifiedRendering,
                 isAnimating, animationStartTime, animationProgress,
                 pendingFrames, now, cursor, nextId, batch, emitted>>
  /\ UNCHANGED <<events, currentEventIndex, currentEvent, currentFilters,
                 typeCheckboxes, inputs, isPlaying, loaderVars>>

\* resetAnimation(): rebuilds the tracks of the current event
ResetAnimation ==
  /\ CanLoad
  /\ currentEvent # Null
  /\ \E ds \in [1..NumRendered(EventPool[currentEvent].particles)
                  -> CoarseDelays] :
       LoadedTracks(loadTracks(EventPool[currentEvent].particles, ds))
  /\ lastOp' = NoOp("resetAnimation")
  /\ UNCHANGED uiVars

(***************************************************************************)
(* DataLoader: validation of parsed event data                             *)
(*                                                                         *)
(* A value of the parsed data is a record [t, v]: t is "num" (a number     *)
(* that is not NaN, v), "NaN", "string", "null" or "absent" (the property  *)
(* is not in the object).  Coordinates count thousandths of a detector     *)
(* unit.  An array is [t |-> "array", v |-> the sequence]; any other t     *)
(* stands for a value of that type in the array's place.  obj tells        *)
(* whether the value is an object at all.                                  *)
(***************************************************************************)
Str == [t |-> "string", v |-> 0]
Absent == [t |-> "absent", v |-> 0]
Arr(seq) == [t |-> "array", v |-> seq]
NoArr(type) == [t |-> type, v |-> <<>>]

\* JavaScript truthiness of what stands in an array's place: arrays (also
\* empty ones) and non-empty strings are truthy, null and undefined are not
Truthy(a) == a.t \in {"array", "string"}

CoordOne == 1000
NumPoint(x, y, z) == [obj |-> TRUE, x |-> Num(x), y |-> Num(y), z |-> Num(z)]

\* typeof v === 'number' (NaN is a number)
typeofNumber(v) == v.t \in {"num", "NaN"}
\* a validNumber that tests the type only
validNumberTypeOnly(v) == v.t \in {"num", "NaN"}
\* typeof v !== 'number' || isNaN(v) is false
validNumber(v) == v.t = "num"

\* generateSimpleTrajectory(particle): numPoints points from the origin
\* along the normalized momentum, the last at maxDistance
generateSimpleTrajectory(particle) ==
  LET px == particle.px.v
      py == particle.py.v
      pz == particle.pz.v
      momentum == Sqrt(px * px + py * py + pz * pz)
      maxDistance == 5
      numPoints == 6
  IN IF momentum = 0 THEN <<NumPoint(0, 0, 0)>>
     ELSE [k \in 1..numPoints |->
             LET distance == ((k - 1) * maxDistance * CoordOne)
                               \div (numPoints - 1)
             IN NumPoint((distance * px) \div momentum,
                         (distance * py) \div momentum,
                         (distance * pz) \div momentum)]

\* eventSchema.particle.required
ParticleRequired == {"id", "type", "px", "py", "pz", "E"}

\* a validateParticle that writes trajectory and derived into its argument
validatedParticleInPlace(particle, trajectory, derived) ==
  [threw |-> FALSE,
   particle |-> [particle EXCEPT !.trajectory = Arr(trajectory),
                                 !.derived = derived],
   input |-> [particle EXCEPT !.trajectory = Arr(trajectory),
                              !.derived = derived]]

\* the return statement of validateParticle: a new object, the input left
\* as it was
validatedParticle(particle, trajectory, derived) ==
  [threw |-> FALSE,
   particle |-> [particle EXCEPT !.trajectory = Arr(trajectory),
                                 !.derived = derived],
   input |-> particle]

\* validateParticle(particle, index): threw, or the validated particle
validateParticle(particle) ==
  IF \/ ~particle.obj
     \/ \E f \in ParticleRequired : particle[f].t = "absent"
     \/ \E f \in {"px", "py", "pz", "E"} : ~validNumber(particle[f])
  THEN [threw |-> TRUE, particle |-> particle, input |-> particle]
  ELSE
    LET px == particle.px.v
        py == particle.py.v
        pz == particle.pz.v
        pt == Sqrt(px * px + py * py)
        derived == [present |-> TRUE, pt |-> pt,
                    momentum |-> Sqrt(px * px + py * py + pz * pz),
                    eta |-> IF pz # 0
                            THEN [f |-> "eta", a |-> pt,
                                  b |-> IF pz < 0 THEN -pz ELSE pz]
                            ELSE [f |-> "zero", a |-> 0, b |-> 0],
                    phi |-> [f |-> "atan2", a |-> py, b |-> px]]
        given == particle.trajectory
    IN IF Truthy(given)
       THEN IF \/ given.t # "array"
               \/ \E k \in 1..Len(given.v) :
                     \/ ~given.v[k].obj
                     \/ ~typeofNumber(given.v[k].x)
                     \/ ~typeofNumber(given.v[k].y)
                     \/ ~typeofNumber(given.v[k].z)
            THEN [threw |-> TRUE, particle |-> particle, input |-> particle]
            ELSE validatedParticle(particle, given.v, derived)
       ELSE validatedParticle(particle, generateSimpleTrajectory(particle),
                              derived)

\* what validateEvent leaves when it throws: no event
NoEvent == [obj |-> FALSE, event_id |-> Absent,
            vertex |-> [t |-> "absent", x |-> Absent, y |-> Absent,
                        z |-> Absent],
            particles |-> NoArr("absent"),
            metadata |-> [particle_count |-> Absent, validated_at |-> Absent]]

\* validateEvent(eventData), called at time t: threw, or the validated
\* event; input is the argument as the call leaves it
validateEvent(data, t) ==
  IF \/ ~data.obj
     \/ data.event_id.t = "absent"
     \/ data.particles.t = "absent"
     \/ data.vertex.t # "object"
     \/ ~typeofNumber(data.vertex.x)
     \/ ~typeofNumber(data.vertex.y)
     \/ ~typeofNumber(data.vertex.z)
     \/ data.particles.t # "array"
  THEN [threw |-> TRUE, event |-> NoEvent, input |-> data]
  ELSE
    LET results == [k \in 1..Len(data.particles.v) |->
                      validateParticle(data.particles.v[k])]
        input == [data EXCEPT !.particles =
                     Arr([k \in 1..Len(results) |-> results[k].input])]
    IN IF \E k \in 1..Len(results) : results[k].threw
       THEN [threw |-> TRUE, event |-> NoEvent, input |-> input]
       ELSE [threw |-> FALSE,
             event |-> [data EXCEPT
                          !.particles =
                             Arr([k \in 1..Len(results) |->
                                    results[k].particle]),
                          !.metadata =
                             [particle_count |-> Num(Len(results)),
                              validated_at |-> Num(t)]],
             input |-> input]

\* parsed file contents: particles
RawParticle(px, py, pz, trajectory) ==
  [obj |-> TRUE, id |-> Num(1), type |-> Str, px |-> Num(px), py |-> Num(py),
   pz |-> Num(pz), E |-> Num(100), trajectory |-> trajectory,
   derived |-> [present |-> FALSE, pt |-> 0, momentum |-> 0,
                eta |-> [f |-> "none", a |-> 0, b |-> 0],
                phi |-> [f |-> "none", a |-> 0, b |-> 0]]]

GoodParticle == RawParticle(30, 40, 0, NoArr("absent"))

RawParticles ==
  {RawParticle(m[1], m[2], m[3], tr) :
     m \in {<<30, 40, 0>>, <<0, 0, 0>>, <<0, 0, 20>>},
     tr \in { NoArr("absent"), NoArr("null"), NoArr("string"),
              Arr(<<>>),
              Arr(<<NumPoint(0, 0, 0)>>),
              Arr(<<NumPoint(0, 0, 0), NumPoint(1000, 0, 2000)>>),
              Arr(<<NumPoint(0, 0, 0),
                    [obj |-> FALSE, x |-> Absent, y |-> Absent, z |-> Absent]>>),
              Arr(<<NumPoint(0, 0, 0), [NumPoint(0, 0, 0) EXCEPT !.x = Str]>>),
              Arr(<<NumPoint(0, 0, 0), [NumPoint(0, 0, 0) EXCEPT !.y = Absent]>>),
              Arr(<<NumPoint(0, 0, 0), [NumPoint(0, 0, 0) EXCEPT !.z = NaN]>>) }}
  \cup {[GoodParticle EXCEPT ![f] = d] :
          f \in ParticleRequired, d \in {Absent, Str, NaN, [t |-> "null", v |-> 0]}}
  \cup {[GoodParticle EXCEPT !.obj = FALSE]}

\* parsed file contents: events
RawVertex(t, x, y, z) == [t |-> t, x |-> x, y |-> y, z |-> z]
RawEvent(vertex, particles) ==
  [obj |-> TRUE, event_id |-> Str, vertex |-> vertex, particles |-> particles,
   metadata |-> [particle_count |-> Absent, validated_at |-> Absent]]

Origin == RawVertex("object", Num(0), Num(0), Num(0))
RawEvents ==
  {RawEvent(v, Arr(<<p>>)) :
     v \in {Origin, RawVertex("object", Num(1000), Num(0), Num(0)),
            RawVertex("object", Num(0), NaN, Num(0))},
     p \in RawParticles}
  \cup {RawEvent(Origin, Arr(<<GoodParticle, p>>)) :
          p \in {[GoodParticle EXCEPT ![f] = Absent] : f \in ParticleRequired}}
  \cup {RawEvent(v, Arr(<<GoodParticle>>)) :
          v \in { RawVertex("absent", Absent, Absent, Absent),
                  RawVertex("null", Absent, Absent, Absent),
                  RawVertex("string", Absent, Absent, Absent),
                  RawVertex("object", Str, Num(0), Num(0)),
                  RawVertex("object", Num(0), Num(0), Absent) }}
  \cup { RawEvent(Origin, Arr(<<>>)),
         RawEvent(Origin, NoArr("absent")),
         RawEvent(Origin, NoArr("string")),
         [RawEvent(Origin, Arr(<<GoodParticle>>)) EXCEPT !.event_id = Absent],
         [RawEvent(Origin, Arr(<<GoodParticle>>)) EXCEPT !.obj = FALSE] }

\* the files a user uploads besides those of EventPool: one that is
\* well-formed, one without a vertex, one whose second particle has no
\* energy and one whose particle has a NaN momentum component
UploadedFiles ==
  { RawEvent(Origin, Arr(<<GoodParticle>>)),
    RawEvent(RawVertex("absent", Absent, Absent, Absent),
             Arr(<<GoodParticle>>)),
    RawEvent(Origin, Arr(<<GoodParticle, [GoodParticle EXCEPT !.E = Absent]>>)),
    RawEvent(Origin, Arr(<<[GoodParticle EXCEPT !.px = NaN]>>)) }

\* const validatedEvent = this.validateEvent(eventData)
ValidateEvent ==
  /\ lastOp.op = "constructor"
  /\ validatedEvent' = validateEvent(eventData, now)
  /\ eventData' = validateEvent(eventData, now).input
  /\ lastOp' = Seen("validateEvent", Null,
                    validateEvent(eventData, now).threw)
  /\ UNCHANGED <<tracks, trackObjects, animatedTracks, tracksGroup,
                 hoveredTrack, selectedTrack, useSimplifiedRendering,
                 isAnimating, animationStartTime, animationProgress,
                 pendingFrames, now, cursor, nextId, batch, emitted>>
  /\ UNCHANGED <<panelVars, isPlaying, loadCalls, returned>>

\* validateEvent called on the event the last call returned
Revalidate ==
  /\ lastOp.op \in {"validateEvent", "revalidate"}
  /\ ~validatedEvent.threw
  /\ validatedEvent' = validateEvent(validatedEvent.event, now)
  /\ eventData' = validateEvent(validatedEvent.event, now).input
  /\ lastOp' = Seen("revalidate", Null,
                    validateEvent(validatedEvent.event, now).threw)
  /\ UNCHANGED <<tracks, trackObjects, animatedTracks, tracksGroup,
                 hoveredTrack, selectedTrack, useSimplifiedRendering,
                 isAnimating, animationStartTime, animationProgress,
                 pendingFrames, now, cursor, nextId, batch, emitted>>
  /\ UNCHANGED <<panelVars, isPlaying, loadCalls, returned>>

\* handleFileUpload(file) for a .json file whose content data fails
\* validateEvent: loadFromFile rejects, nothing is pushed
HandleRejectedUpload(data) ==
  /\ validateEvent(data, now).threw
  /\ HandleBadUpload

(***************************************************************************)
(* DataLoader: the list of events and the current event                    *)
(*                                                                         *)
(* An event is named by its position in EventPool; getEvent's null is      *)
(* Null.  A file is named by the event loadEvent resolves to, or Null when *)
(* loadEvent throws (fetch or validateEvent fails).                        *)
(***************************************************************************)
\* the fields of the DataLoader object
DataLoader ==
  [events |-> events, currentEventIndex |-> currentEventIndex,
   currentEvent |-> currentEvent]

\* switchToEvent(index): the loader afterwards and the value returned
switchToEvent(dl, index) ==
  LET event == getEvent(dl.events, index)
  IN IF event # Null
     THEN [loader |-> [dl EXCEPT !.currentEventIndex = index,
                                 !.currentEvent = event],
           result |-> event]
     ELSE [loader |-> dl, result |-> Null]

\* nextEvent()
nextEvent(dl) ==
  IF Len(dl.events) = 0 THEN [loader |-> dl, result |-> Null]
  ELSE switchToEvent(dl, (dl.currentEventIndex + 1) % Len(dl.events))

\* a previousEvent that does not wrap around at the first event
previousEventStopsAtFirst(dl) ==
  IF Len(dl.events) = 0 THEN [loader |-> dl, result |-> Null]
  ELSE switchToEvent(dl, dl.currentEventIndex - 1)

\* previousEvent()
previousEvent(dl) ==
  IF Len(dl.events) = 0 THEN [loader |-> dl, result |-> Null]
  ELSE switchToEvent(dl, IF dl.currentEventIndex = 0
                         THEN Len(dl.events) - 1
                         ELSE dl.currentEventIndex - 1)

\* clear()
clear(dl) ==
  [loader |-> [events |-> <<>>, currentEventIndex |-> 0, currentEvent |-> Null],
   result |-> Null]

\* a method of the loader has run: dl is the loader it leaves, calls the
\* loadEvents calls still awaiting, ret what the last finished loadEvents
\* call returned.  The viewer is not told.
LoaderBecomes(name, dl, calls, ret) ==
  /\ events' = dl.events
  /\ currentEventIndex' = dl.currentEventIndex
  /\ currentEvent' = dl.currentEvent
  /\ loadCalls' = calls
  /\ returned' = ret
  /\ lastOp' = NoOp(name)
  /\ UNCHANGED <<tracks, trackObjects, animatedTracks, tracksGroup,
                 hoveredTrack, selectedTrack, useSimplifiedRendering,
                 isAnimating, animationStartTime, animationProgress,
                 pendingFrames, now, cursor, nextId, batch, emitted>>
  /\ UNCHANGED <<currentFilters, typeCheckboxes, inputs, notification,
                 isPlaying, eventData, validatedEvent>>

\* the file lists loadEvents is called with
FileLists == {<<>>, <<Null>>, <<1, 2>>, <<Null, 2>>}

\* loadEvents(filePaths) up to its first await: this.events = [], then
\* loadEvent(filePaths[0]) is awaited; with no file the call returns at once
LoadEvents(files) ==
  /\ Len(loadCalls) < MaxCalls
  /\ IF Len(files) = 0
     THEN LoaderBecomes("loadEvents", [DataLoader EXCEPT !.events = <<>>],
                        loadCalls, [files |-> files, events |-> <<>>])
     ELSE LoaderBecomes("loadEvent", [DataLoader EXCEPT !.events = <<>>],
                        Append(loadCalls, [files |-> files, next |-> 1]),
                        returned)

\* the loadEvent awaited by the c-th call in flight settles: the event is
\* pushed, or the failure is logged; the next file is awaited, or after the
\* last one the first event (if any) is made current and the call returns
LoadEventSettles(c) ==
  /\ c \in 1..Len(loadCalls)
  /\ LET call == loadCalls[c]
         file == call.files[call.next]
         evs == IF file # Null THEN Append(events, file) ELSE events
         rest == [k \in 1..(Len(loadCalls) - 1) |->
                    IF k < c THEN loadCalls[k] ELSE loadCalls[k + 1]]
     IN IF call.next < Len(call.files)
        THEN LoaderBecomes("loadEvent", [DataLoader EXCEPT !.events = evs],
                           [loadCalls EXCEPT ![c].next = @ + 1], returned)
        ELSE LoaderBecomes("loadEvents",
                           IF Len(evs) > 0
                           THEN [events |-> evs, currentEventIndex |-> 0,
                                 currentEvent |-> evs[1]]
                           ELSE [DataLoader EXCEPT !.events = evs],
                           rest, [files |-> call.files, events |-> evs])

(***************************************************************************)
(* The ParticleTracks component on its own                                 *)
(***************************************************************************)
InitTracks ==
  /\ tracks = <<>>
  /\ trackObjects = <<>>
  /\ animatedTracks = <<>>
  /\ tracksGroup = <<>>
  /\ hoveredTrack = Null
  /\ selectedTrack = Null
  /\ useSimplifiedRendering = FALSE
  /\ isAnimating = FALSE
  /\ animationStartTime = 0
  /\ animationProgress = 0
  /\ pendingFrames = 0
  /\ now = 0
  /\ cursor = ""
  /\ nextId = 1
  /\ batch = 0
  /\ emitted = <<>>
  /\ lastOp = NoOp("constructor")

InitUI ==
  /\ events = <<>>
  /\ currentEventIndex = 0
  /\ currentEvent = Null
  /\ currentFilters = [types |-> <<>>, minEnergy |-> 0, maxEnergy |-> Infinity,
                       minPt |-> 0, maxPt |-> Infinity]
  /\ typeCheckboxes = <<>>
  /\ inputs = [minEnergy |-> Field(0), maxEnergy |-> Field(10000),
               minPt |-> Field(0), maxPt |-> Field(10000)]
  /\ notification = "none"

\* ThreeScene's constructor: this.isPlaying = true
InitScene == isPlaying = TRUE

\* no file has been read
Init ==
  /\ InitTracks /\ InitUI /\ InitScene
  /\ eventData = RawEvent(Origin, Arr(<<>>))
  /\ validatedEvent = [threw |-> FALSE, event |-> NoEvent,
                       input |-> RawEvent(Origin, Arr(<<>>))]
  /\ loadCalls = <<>>
  /\ returned = [files |-> <<>>, events |-> <<>>]

\* validation on its own: a file has been parsed to any of RawEvents
InitValidate ==
  /\ InitTracks /\ InitUI /\ InitScene
  /\ eventData \in RawEvents
  /\ validatedEvent = [threw |-> FALSE, event |-> NoEvent,
                       input |-> eventData]
  /\ loadCalls = <<>>
  /\ returned = [files |-> <<>>, events |-> <<>>]

NextValidate ==
  \/ ValidateEvent
  \/ Revalidate
  \/ \E dt \in CoarseSteps : Tick(dt) /\ UNCHANGED uiVars

SpecValidate == InitValidate /\ [][NextValidate]_vars

\* uploads of .json files that pass and that fail validation and of a .csv
\* file (event 5), with the pointer and the type filter at work on what is
\* displayed
NextUpload ==
  \/ \E ev \in {1, 2, 5} : HandleFileUpload(ev)
  \/ \E data \in UploadedFiles : HandleRejectedUpload(data)
  \/ \E ray \in Rays : HandleMouseMove(ray) /\ UNCHANGED uiVars
  \/ \E ray \in Rays : HandleClick(ray) /\ UNCHANGED uiVars
  \/ \E k \in 1..3 : ToggleType(k)

SpecUpload == Init /\ [][NextUpload]_vars

\* SpecLoader: the DataLoader's methods in any order, with loadEvents calls
\* in flight together
NextLoader ==
  \/ \E files \in FileLists : LoadEvents(files)
  \/ \E c \in 1..MaxCalls : LoadEventSettles(c)
  \/ \E i \in 0..2 : LoaderBecomes("switchToEvent",
                                   switchToEvent(DataLoader, i).loader,
                                   loadCalls, returned)
  \/ LoaderBecomes("nextEvent", nextEvent(DataLoader).loader,
                   loadCalls, returned)
  \/ LoaderBecomes("previousEvent", previousEvent(DataLoader).loader,
                   loadCalls, returned)
  \/ LoaderBecomes("clear", clear(DataLoader).loader, loadCalls, returned)

SpecLoader == Init /\ [][NextLoader]_vars

\* Spec: loading, clearing and the pointer, with the animation run in
\* whole frames
Next ==
  \/ \E e \in EventIds : LoadTracks(e, CoarseDelays) /\ UNCHANGED uiVars
  \/ ClearTracks /\ UNCHANGED uiVars
  \/ \E ray \in Rays : HandleMouseMove(ray) /\ UNCHANGED uiVars
  \/ \E ray \in Rays : HandleClick(ray) /\ UNCHANGED uiVars
  \/ \E dt \in CoarseSteps : AnimationFrame(dt) /\ UNCHANGED uiVars

Spec == Init /\ [][Next]_vars

\* SpecFilter: the filter methods called directly, in any order, and the
\* pointer
NextFilter ==
  \/ \E e \in {1, 2} : LoadTracks(e, CoarseDelays) /\ UNCHANGED uiVars
  \/ \E ray \in Rays : HandleMouseMove(ray) /\ UNCHANGED uiVars
  \/ \E ray \in Rays : HandleClick(ray) /\ UNCHANGED uiVars
  \/ \E types \in TypeLists : FilterByType(types) /\ UNCHANGED uiVars
  \/ \E r \in EnergyRanges : FilterByEnergy(r[1], r[2]) /\ UNCHANGED uiVars
  \/ \E r \in PtRanges : FilterByPt(r[1], r[2]) /\ UNCHANGED uiVars
  \/ \E dt \in CoarseSteps : AnimationFrame(dt) /\ UNCHANGED uiVars

SpecFilter == Init /\ [][NextFilter]_vars

\* SpecUI: the viewer driven through UIManager
NextUI ==
  \/ \E ev \in PanelEvents : HandleFileUpload(ev)
  \/ HandleBadUpload
  \/ \E i \in 0..(MaxLoads - 1) : SwitchToEvent(i)
  \/ NextEvent
  \/ PreviousEvent
  \/ \E k \in 1..3 : ToggleType(k)
  \/ \E name \in FieldNames : \E value \in FieldValues(name) : EditInput(name, value)
  \/ ResetAnimation

SpecUI == Init /\ [][NextUI]_vars

\* uploads of events of every size, navigation between them, rebuilds,
\* clears, animation frames and play/pause
NextMode ==
  \/ \E ev \in EventIds : HandleFileUpload(ev)
  \/ \E i \in 0..(MaxLoads - 1) : SwitchToEvent(i)
  \/ NextEvent
  \/ PreviousEvent
  \/ ResetAnimation
  \/ \E dt \in CoarseSteps : AnimationFrame(dt) /\ UNCHANGED uiVars
  \/ ClearTracks /\ UNCHANGED uiVars
  \/ ToggleAnimation

SpecMode == Init /\ [][NextMode]_vars

\* SpecAnim: the course of the animation, with the random delays and the
\* frames at different times
NextAnim ==
  \/ \E e \in {1, 2} : LoadTracks(e, Delays) /\ UNCHANGED uiVars
  \/ ClearTracks /\ UNCHANGED uiVars
  \/ \E dt \in TimeSteps : AnimationFrame(dt) /\ UNCHANGED uiVars
  \/ \E dt \in TimeSteps : Tick(dt) /\ UNCHANGED uiVars
  \/ ToggleAnimation

SpecAnim == Init /\ [][NextAnim]_vars

\* SpecLive: the animation while the browser keeps delivering the frames it
\* was asked for.  The frames are the clock, and a run starts only while
\* the model's clock has animationDuration left.
NextLive ==
  \/ \E e \in {1} : /\ now + animationDuration <= MaxTime
                        /\ LoadTracks(e, CoarseDelays) /\ UNCHANGED uiVars
  \/ ClearTracks /\ UNCHANGED uiVars
  \/ \E dt \in TimeSteps : AnimationFrame(dt) /\ UNCHANGED uiVars
  \/ now + animationDuration <= MaxTime /\ ToggleAnimation

SpecLive ==
  /\ Init /\ [][NextLive]_vars
  /\ WF_vars(\E dt \in TimeSteps : AnimationFrame(dt) /\ UNCHANGED uiVars)

(***************************************************************************)
(* Properties                                                              *)
(***************************************************************************)
\* the visual with identity id in a list of visuals
Visual(objs, id) == objs[Position(objs, id)]

\* the appearance a visual is built with: the colour of its particle type,
\* the energy opacity for a tube, 0.8 for a line, 0.9 for an arrow, no tint
BuiltOpacity(o) ==
  IF o.kind = "mesh" THEN energyAlpha(o.particle.E)
  ELSE IF o.kind = "line" THEN LineOpacity ELSE ArrowOpacity

IsOriginal(o) ==
  /\ o.color = ConfigOf(o.particle.type).color
  /\ o.opacity = Num(BuiltOpacity(o))
  /\ o.emissive = 0

\* hover highlight: highlight colour, opacity boosted by 0.3 and capped at 1
HasHoverHighlight(o) ==
  /\ o.color = HighlightColor
  /\ o.opacity = Num(Min(BuiltOpacity(o) + 3000, OpacityOne))

\* selection highlight: highlight colour, opacity 1.0, emissive tint
HasSelectHighlight(o) ==
  /\ o.color = HighlightColor
  /\ o.opacity = Num(OpacityOne)
  /\ o.material # "LineBasicMaterial"
  /\ o.emissive = SelectEmissive

Registered(ref) == ref = Null \/ ref \in Ids(trackObjects)

\* C9: in every reachable state the hovered visual and the selected visual
\* are each none or one of the currently registered visuals (whose
\* identities are pairwise distinct), and right after clearTracks or
\* loadTracks both are none.
C9_HoverSelectRegistered ==
  /\ Registered(hoveredTrack)
  /\ Registered(selectedTrack)
  /\ \A i, j \in 1..Len(trackObjects) :
        trackObjects[i].id = trackObjects[j].id => i = j
  /\ lastOp.op \in {"clearTracks", "loadTracks"}
        => hoveredTrack = Null /\ selectedTrack = Null

\* C9 witness: in a rebuilt batch one visual is hovered and another selected
C9_Witness ==
  /\ batch = 2
  /\ hoveredTrack # Null
  /\ selectedTrack # Null
  /\ hoveredTrack # selectedTrack

\* C10: a step that rebuilds the tracks leaves only visuals that did not
\* exist before it, each with the appearance it is built with, all of them
\* children of the tracks group, and neither a hovered nor a selected one.
C10_RebuildStartsFresh ==
  [][batch' # batch =>
       /\ \A i \in 1..Len(trackObjects') :
             /\ trackObjects'[i].id \notin Ids(trackObjects)
             /\ trackObjects'[i].id >= nextId
             /\ IsOriginal(trackObjects'[i])
       /\ tracksGroup' = [i \in 1..Len(trackObjects') |-> trackObjects'[i].id]
       /\ hoveredTrack' = Null
       /\ selectedTrack' = Null]_vars

\* C10 witness: a second batch has just been built
C10_Witness ==
  /\ lastOp.op = "loadTracks"
  /\ batch = 2
  /\ Len(trackObjects) > 0

MoveStep == lastOp'.op = "handleMouseMove"
ClickStep == lastOp'.op = "handleClick"

\* C5: a pointer-move whose nearest hit differs from the hovered visual V,
\* V not being the selected visual, leaves V with the colour, opacity and
\* emissive tint it was built with, whatever kind of visual V is.
C5_RevertedExactly ==
  [][(/\ MoveStep
      /\ hoveredTrack # Null
      /\ hoveredTrack # lastOp'.hit
      /\ hoveredTrack # selectedTrack)
       => IsOriginal(Visual(trackObjects', hoveredTrack))]_vars

\* C6: no pointer-move makes a visual whose visibility flag is false the
\* hovered visual, and no click makes it the selected visual.
C6_InvisibleExcluded ==
  [][/\ (MoveStep /\ hoveredTrack' # Null /\ ~lastOp'.threw)
          => Visual(trackObjects, hoveredTrack').visible
     /\ (ClickStep /\ selectedTrack' # Null /\ lastOp'.hit # Null)
          => Visual(trackObjects, selectedTrack').visible]_vars

\* C7: after a click that resolves to no intersection the selection is
\* none, the formerly selected visual has its original appearance, and a
\* deselect notification has been emitted.
C7_ClickOnNothingClears ==
  [][(ClickStep /\ lastOp'.hit = Null)
       => /\ selectedTrack' = Null
          /\ selectedTrack # Null
               => IsOriginal(Visual(trackObjects', selectedTrack))
          /\ emitted' = <<[type |-> "particleDeselect", particle |-> Null]>>]_vars

\* C8: a click whose nearest hit is V makes V the selected visual with the
\* selection highlight, reverts a different previously selected visual, and
\* emits exactly one select notification carrying V's particle.
C8_ClickSelects ==
  [][(ClickStep /\ lastOp'.hit # Null)
       => /\ selectedTrack' = lastOp'.hit
          /\ HasSelectHighlight(Visual(trackObjects', lastOp'.hit))
          /\ (selectedTrack # Null /\ selectedTrack # lastOp'.hit)
               => IsOriginal(Visual(trackObjects', selectedTrack))
          /\ emitted' = <<[type |-> "particleSelect",
                           particle |-> Visual(trackObjects, lastOp'.hit)
                                          .particle.id]>>]_vars

\* the appearance fields of a visual
Appearance(o) == <<o.color, o.opacity, o.emissive>>

\* a click has just selected A while another visual B is hovered
SelectedWhileHovering ==
  /\ lastOp.op = "handleClick"
  /\ lastOp.hit # Null
  /\ selectedTrack = lastOp.hit
  /\ hoveredTrack # Null
  /\ hoveredTrack # selectedTrack

\* C4: when a click selects A while B (another visual) is hovered, B shows
\* the hover highlight and A the selection highlight; a following
\* pointer-move that does not hit B reverts B to its original appearance and
\* leaves A's appearance unchanged.
C4_HoverSelectIndependent ==
  [][SelectedWhileHovering
       => /\ HasHoverHighlight(Visual(trackObjects, hoveredTrack))
          /\ HasSelectHighlight(Visual(trackObjects, selectedTrack))
          /\ (MoveStep /\ lastOp'.hit # hoveredTrack)
               => /\ IsOriginal(Visual(trackObjects', hoveredTrack))
                  /\ Appearance(Visual(trackObjects', selectedTrack))
                       = Appearance(Visual(trackObjects, selectedTrack))]_vars

FilterOps == {"filterByType", "filterByEnergy", "filterByPt"}

\* the visuals registered both before and after a step
Kept == Ids(trackObjects) \cap Ids(trackObjects')

\* C1 as stated: no call to filterByType, filterByEnergy or filterByPt
\* changes a visual of the batch from invisible to visible.
C1_FiltersNeverShow ==
  [][lastOp'.op \in FilterOps
       => \A id \in Kept : Visual(trackObjects', id).visible
                              => Visual(trackObjects, id).visible]_vars

\* C1 amended: a step that changes a visual of the batch from invisible to
\* visible is a call to filterByType; filterByEnergy and filterByPt (and
\* every other step that keeps the batch) never do.
C1_OnlyTypeFilterShows ==
  [][\A id \in Kept :
        (Visual(trackObjects', id).visible /\ ~Visual(trackObjects, id).visible)
          => lastOp'.op = "filterByType"]_vars

\* C1 witness: filterByEnergy has just run and a visual whose energy lies
\* in every range it can have been called with is still invisible
C1_Witness ==
  /\ lastOp.op = "filterByEnergy"
  /\ \E i \in 1..Len(trackObjects) :
        /\ ~trackObjects[i].visible
        /\ \A r \in EnergyRanges : /\ trackObjects[i].particle.E >= r[1]
                                    /\ trackObjects[i].particle.E <= r[2]

\* what the filter settings f let through
Passes(f, o) ==
  /\ (f.types = <<>> \/ Includes(f.types, o.particle.type))
  /\ f.minEnergy <= o.particle.E /\ o.particle.E <= f.maxEnergy
  /\ f.minPt <= tracks[o.trackData].pt /\ tracks[o.trackData].pt <= f.maxPt

\* updateFilters() has just applied the three filters in order (on its own
\* or as the last step of a loadEventData that got as far as resetFilters)
FiltersApplied ==
  \/ lastOp.op = "updateFilters"
  \/ (lastOp.op = "loadEventData" /\ ~lastOp.threw)

\* C2: after filterByType(T), filterByEnergy(a, b), filterByPt(c, d) run in
\* that order, every registered visual is visible exactly when (T is empty
\* or its type is in T) and a <= E <= b and c <= pt <= d.
C2_VisibleIffPasses ==
  FiltersApplied
    => \A i \in 1..Len(trackObjects) :
          trackObjects[i].visible <=> Passes(currentFilters, trackObjects[i])

\* C2 witness: the three filters ran with an empty type list on a batch that
\* had hidden visuals; the ranges now hide some visuals and show others
C2_Witness ==
  /\ lastOp.op = "updateFilters"
  /\ typeCheckboxes # <<>>
  /\ currentFilters.types = <<>>
  /\ \E i, j \in 1..Len(trackObjects) :
        trackObjects[i].visible /\ ~trackObjects[j].visible

\* C3: after loadEventData has run resetFilters, every registered visual of
\* the current event is visible.
C3_ResetShowsAll ==
  (lastOp.op = "loadEventData" /\ ~lastOp.threw)
    => \A i \in 1..Len(trackObjects) : trackObjects[i].visible


(***************************************************************************)
(* The emergence animation                                                 *)
(***************************************************************************)
\* the last operation dispatched 'trackAnimationComplete'
AnimationComplete ==
  \E k \in 1..Len(emitted) : emitted[k].type = "trackAnimationComplete"

\* how many 'trackAnimationComplete' the last operation dispatched
CompleteCount ==
  Cardinality({k \in 1..Len(emitted) :
                 emitted[k].type = "trackAnimationComplete"})

\* the registered visuals animatedTracks has an entry for
AnimatedVisuals ==
  {i \in 1..Len(trackObjects) :
     \E k \in 1..Len(animatedTracks) :
        animatedTracks[k].mesh = trackObjects[i].id}

\* C11: when the animation-complete notification is emitted, every animated
\* visual's local progress has reached 1: its scale is exactly 1
C11_CompleteMeansFullScale ==
  (lastOp.op = "animationFrame" /\ AnimationComplete)
    => \A i \in AnimatedVisuals : trackObjects[i].scale = ScaleOne

\* C12: at any time at most one animation-frame continuation of
\* ParticleTracks is pending, also when the animation is started during a run
C12_OneContinuation == pendingFrames <= 1

\* C13: when clearTracks returns, isAnimating is false and no animation-frame
\* continuation remains pending
C13_ClearHaltsAnimation ==
  lastOp.op = "clearTracks" => ~isAnimating /\ pendingFrames = 0

\* C14: after clearTracks the registered visuals, the track records, the
\* animation entries and the tracks group are empty, and at any time every
\* animation entry (the only visuals a frame scales) is of a registered
\* visual: no frame changes the scale of a cleared visual
C14_ClearedStaysCleared ==
  /\ lastOp.op = "clearTracks"
       => /\ trackObjects = <<>>
          /\ tracks = <<>>
          /\ animatedTracks = <<>>
          /\ tracksGroup = <<>>
  /\ \A k \in 1..Len(animatedTracks) :
        animatedTracks[k].mesh \in Ids(trackObjects)

\* an animation frame of a run that clearTracks did not stop has run on the
\* emptied collections
C14_Witness ==
  /\ lastOp.op = "animationFrame"
  /\ batch > 0
  /\ trackObjects = <<>>
  /\ tracks = <<>>
  /\ animatedTracks = <<>>
  /\ tracksGroup = <<>>

\* the visuals registered before and after a step have the scale they had
SameScales ==
  \A i \in 1..Len(trackObjects) : \A j \in 1..Len(trackObjects') :
     trackObjects[i].id = trackObjects'[j].id
       => trackObjects'[j].scale = trackObjects[i].scale

\* C15: the step in which a run completes (isAnimating becomes false) emits
\* exactly one animation-complete notification and no other step emits one;
\* after it no continuation is left pending, and while the animation is not
\* started again no step changes a visual's scale
C15_OneCompletePerRun ==
  [][/\ (isAnimating /\ ~isAnimating') => CompleteCount' = 1
     /\ CompleteCount' <= 1
     /\ AnimationComplete' => lastOp'.op = "animationFrame" /\ ~isAnimating'
     /\ ~isAnimating' => pendingFrames' = 0
     /\ (~isAnimating /\ ~isAnimating') => SameScales]_vars

\* a run that was started anew while it was in progress has completed
C15_Witness ==
  /\ lastOp.op = "animationFrame"
  /\ batch >= 2
  /\ ~isAnimating
  /\ CompleteCount = 1
  /\ trackObjects # <<>>

\* C16: while the scene's isPlaying flag is false, no animation frame changes
\* a visual's scale
C16_PausedFramesLeaveScales ==
  [][(~isPlaying /\ ~isPlaying' /\ lastOp'.op = "animationFrame")
       => SameScales]_vars

\* C17: a toggle (the only step that changes isPlaying) during a run, or one
\* carrying isPlaying false, leaves the run's start time, its state and every
\* visual as they were; a toggle carrying isPlaying true while no run is in
\* progress starts the animation from scratch
C17_ToggleStartsOnlyWhenIdle ==
  [][(isPlaying' # isPlaying)
       => /\ (isAnimating \/ ~isPlaying')
               => /\ animationStartTime' = animationStartTime
                  /\ trackObjects' = trackObjects
                  /\ isAnimating' = isAnimating
                  /\ animationProgress' = animationProgress
                  /\ pendingFrames' = pendingFrames
          /\ (isPlaying' /\ ~isAnimating /\ animatedTracks # <<>>)
               => /\ isAnimating'
                  /\ animationStartTime' = now
                  /\ animationProgress' = 0
                  /\ pendingFrames' = pendingFrames + 1
                  /\ \A i \in AnimatedVisuals : trackObjects'[i].scale = 0]_vars

\* play was toggled on during a run that had progressed, and the run went on
C17_Witness ==
  /\ lastOp.op = "handleAnimationToggle"
  /\ isPlaying
  /\ isAnimating
  /\ animationProgress > 0
  /\ animationStartTime < now
  /\ \E i \in AnimatedVisuals : trackObjects[i].scale > 0

(***************************************************************************)
(* The rendering mode                                                      *)
(***************************************************************************)
\* C18: the rendering mode is the one the last loadTracks decided from the
\* particle count of the event it was given: simplified exactly when the
\* count is greater than maxTracks (500), whatever was loaded before
C18_SimplifiedIffOverLimit ==
  (batch > 0 /\ currentEvent # Null)
    => (useSimplifiedRendering
          <=> Len(EventPool[currentEvent].particles) > maxTracks)

\* an event of exactly 500 particles was loaded after one of more than 500:
\* simplified rendering is off again
C18_Witness ==
  /\ batch = 2
  /\ Len(events) = 2
  /\ Len(EventPool[events[1]].particles) > maxTracks
  /\ currentEvent = events[2]
  /\ Len(EventPool[currentEvent].particles) = maxTracks
  /\ lastOp.op = "loadEventData"
  /\ ~useSimplifiedRendering
  /\ \E i \in 1..Len(trackObjects) : trackObjects[i].kind = "mesh"

\* C19: in simplified mode every visual of the batch is a simplified line:
\* no particle gets a detailed tube (with its arrow)
C19_SimplifiedBatchAllLines ==
  useSimplifiedRendering
    => \A i \in 1..Len(trackObjects) : trackObjects[i].kind = "line"

\* C20: the simplified line of a trajectory of more than 10 points has at
\* most 9 points, the last of them the trajectory's last point
C20_AtMostNinePoints ==
  \A i \in 1..Len(trackObjects) :
     LET V == trackObjects[i]
         trajectory == V.particle.trajectory
     IN (V.kind = "line" /\ Len(trajectory) > 10)
          => /\ Len(V.points) <= 9
             /\ V.points[Len(V.points)] = trajectory[Len(trajectory)]

(***************************************************************************)
(* The built appearance                                                    *)
(***************************************************************************)
\* the tube meshes registered, with the track record each was built from
C21_Tubes == {i \in 1..Len(trackObjects) : trackObjects[i].kind = "mesh"}
C21_TrackOf(i) == tracks[trackObjects[i].trackData]

\* C21 as stated: beyond 50 GeV/c (500 tenths) the thickness is 2 times the
\* type's base thickness (thickness counts 1/1000 of the base unit)
C21_SaturatesAtTwiceBase ==
  \A i \in C21_Tubes :
     C21_TrackOf(i).momentum > 500
       => trackObjects[i].thickness = 2 * 1000 * C21_TrackOf(i).config.thickness

\* C21 amended: the thickness equals the base at 50 GeV/c, grows with the
\* momentum up to 100 GeV/c and is 1.5 times the base from there on; it never
\* reaches 2 times the base
C21_SaturatesAtOneAndAHalf ==
  \A i \in C21_Tubes :
     LET base == C21_TrackOf(i).config.thickness
         p == C21_TrackOf(i).momentum
         thickness == trackObjects[i].thickness
     IN /\ p >= 1000 => 2 * thickness = 3 * 1000 * base
        /\ p < 1000 => 2 * thickness < 3 * 1000 * base
        /\ p = 500 => thickness = 1000 * base
        /\ 2 * thickness >= 1000 * base
        /\ \A j \in C21_Tubes :
              (C21_TrackOf(j).config.thickness = base /\ C21_TrackOf(j).momentum <= p)
                => trackObjects[j].thickness <= thickness

\* tubes of 75 GeV/c and of 150 GeV/c are registered
C21_Witness ==
  /\ \E i \in C21_Tubes : C21_TrackOf(i).momentum > 500 /\ C21_TrackOf(i).momentum < 1000
  /\ \E i \in C21_Tubes : C21_TrackOf(i).momentum > 1000

\* C22: right after loadTracks the tube or line of every rendered particle
\* has, as its opacity and as its stored original opacity,
\* min(E/100, 1) * 0.7 + 0.3, which lies between 0.3 and 1.0
C22_OpacityFromEnergy ==
  lastOp.op = "loadTracks"
    => \A i \in 1..Len(trackObjects) :
          LET V == trackObjects[i]
              alpha == Min(V.particle.E, 1000) * 7 + 3000
          IN V.kind \in {"mesh", "line"}
               => /\ V.opacity = Num(alpha)
                  /\ V.originalOpacity = Num(alpha)
                  /\ alpha >= 3000 /\ alpha <= OpacityOne

(***************************************************************************)
(* What a load registers                                                   *)
(***************************************************************************)
\* the particles of the loader's current event, and the positions of those
\* with fewer than 2 trajectory points
C28_CurrentParticles == EventPool[currentEvent].particles
C28_ShortTracked ==
  {i \in 1..Len(C28_CurrentParticles) : Len(C28_CurrentParticles[i].trajectory) < 2}

\* C28: after a load, a particle with fewer than 2 trajectory points has no
\* track record and no visual, every other particle of the event has a
\* record and a visual, and getTrackCount is the number of the others
C28_ShortTrajectorySkipped ==
  (currentEvent # Null /\ lastOp.op \in {"loadEventData", "resetAnimation"})
    => /\ \A i \in C28_ShortTracked :
             /\ \A k \in 1..Len(tracks) : tracks[k].index # i - 1
             /\ \A v \in 1..Len(trackObjects) :
                   trackObjects[v].particle # C28_CurrentParticles[i]
       /\ \A i \in (1..Len(C28_CurrentParticles)) \ C28_ShortTracked :
             /\ \E k \in 1..Len(tracks) :
                   /\ tracks[k].index = i - 1
                   /\ tracks[k].particle = C28_CurrentParticles[i]
             /\ \E v \in 1..Len(trackObjects) :
                   trackObjects[v].particle = C28_CurrentParticles[i]
       /\ getTrackCount = Len(C28_CurrentParticles) - Cardinality(C28_ShortTracked)

\* an event with a single-point trajectory and two longer ones was loaded
C28_Witness ==
  /\ currentEvent # Null
  /\ lastOp.op = "loadEventData"
  /\ C28_ShortTracked # {}
  /\ getTrackCount = 2
  /\ Len(C28_CurrentParticles) = 3

\* C30: the number of registered (hit-testable) visuals equals getTrackCount,
\* and getVisibleTrackCount never exceeds getTrackCount
C30_OneVisualPerTrack ==
  /\ Len(trackObjects) = getTrackCount
  /\ getVisibleTrackCount <= getTrackCount

\* C29: loading an event completes without an error also when it holds a
\* particle of a type outside the particle-type table: its visuals have the
\* unknown appearance, and the load sequence runs to its end (filters reset)
C29_UnknownTypeLoads ==
  (currentEvent # Null /\ lastOp.op = "loadEventData")
    => /\ \A v \in 1..Len(trackObjects) :
             trackObjects[v].particle.type \notin KnownTypes
               => trackObjects[v].color = PARTICLE_CONFIG.unknown.color
       /\ ~lastOp.threw
       /\ inputs = resetInputs

(***************************************************************************)
(* Validation                                                              *)
(***************************************************************************)
\* the step is a call of validateEvent on the parsed file
C23_ValidateStep == lastOp.op = "constructor" /\ lastOp'.op = "validateEvent"
\* the step is a call of validateEvent on the event the last call returned
C24_RevalidateStep == now' = now /\ lastOp'.op = "revalidate"

\* the defects of parsed event data d that validation has to refuse
C23_MalformedPoint(pt) ==
  \/ ~pt.obj
  \/ \E c \in {pt.x, pt.y, pt.z} : c.t \notin {"num", "NaN"}
C23_MalformedParticle(p) ==
  /\ p.obj
  /\ \/ \E f \in ParticleRequired : p[f].t = "absent"
     \/ \E f \in {"px", "py", "pz", "E"} : p[f].t # "num"
     \/ /\ p.trajectory.t = "array"
        /\ \E k \in 1..Len(p.trajectory.v) : C23_MalformedPoint(p.trajectory.v[k])
C23_Malformed(d) ==
  /\ d.obj
  /\ \/ d.event_id.t = "absent"
     \/ d.particles.t = "absent"
     \/ d.vertex.t = "absent"
     \/ /\ d.vertex.t = "object"
        /\ \E c \in {d.vertex.x, d.vertex.y, d.vertex.z} :
              c.t \notin {"num", "NaN"}
     \/ d.particles.t \notin {"array", "absent"}
     \/ /\ d.particles.t = "array"
        /\ \E k \in 1..Len(d.particles.v) :
              C23_MalformedParticle(d.particles.v[k])

\* C23: validateEvent throws and returns no event whenever event_id,
\* particles or vertex is absent, a vertex coordinate is not a number,
\* particles is not an array, a particle lacks a required field, one of px,
\* py, pz, E is not a number or is NaN, or a trajectory point is not an
\* object or has a coordinate that is not a number; nothing of the event is
\* returned, however many of its particles are well-formed.
C23_MalformedThrows ==
  [][(C23_ValidateStep /\ C23_Malformed(eventData))
       => (validatedEvent'.threw /\ validatedEvent'.event = NoEvent
           /\ lastOp'.threw)]_vars

\* a two-particle event whose first particle is well-formed and whose second
\* is not has been refused whole
C23_Witness ==
  /\ lastOp.op = "validateEvent"
  /\ validatedEvent.threw
  /\ validatedEvent.event = NoEvent
  /\ eventData.particles.t = "array"
  /\ Len(eventData.particles.v) = 2
  /\ ~C23_MalformedParticle(eventData.particles.v[1])
  /\ C23_MalformedParticle(eventData.particles.v[2])

\* the derived fields and the trajectory of every particle of event e
C24_Physics(e) ==
  [k \in 1..Len(e.particles.v) |->
     [trajectory |-> e.particles.v[k].trajectory,
      derived |-> e.particles.v[k].derived]]

\* C24: validateEvent leaves its argument as it was, and validating a
\* validated event succeeds with the same derived fields and the same
\* trajectory for every particle.
C24_PureAndIdempotent ==
  [][/\ C23_ValidateStep => eventData' = eventData
     /\ C24_RevalidateStep =>
          /\ eventData' = validatedEvent.event
          /\ ~validatedEvent'.threw
          /\ C24_Physics(validatedEvent'.event) = C24_Physics(validatedEvent.event)
          /\ \A k \in 1..Len(validatedEvent'.event.particles.v) :
                validatedEvent'.event.particles.v[k].derived.present]_vars

\* an event with a synthesized trajectory has been validated a second time,
\* later than the first
C24_Witness ==
  /\ lastOp.op = "revalidate"
  /\ ~validatedEvent.threw
  /\ validatedEvent.event.metadata.validated_at # eventData.metadata.validated_at
  /\ Len(validatedEvent.event.particles.v) = 1
  /\ Len(validatedEvent.event.particles.v[1].trajectory.v) = 6
  /\ validatedEvent.input.particles.v[1].derived.present

\* a particle's input trajectory is missing, or an array of fewer than 2
\* points
C25_Sparse(trajectory) ==
  \/ trajectory.t \in {"absent", "null"}
  \/ trajectory.t = "array" /\ Len(trajectory.v) < 2

\* trajectory is the straight line of 6 points from `from`, of length 5.0
\* (5 * CoordOne), along the normalized momentum of p; a single point
\* at `from` if the momentum is zero
C25_StraightLine(trajectory, p, from) ==
  LET momentum == Sqrt(p.px.v * p.px.v + p.py.v * p.py.v + p.pz.v * p.pz.v)
  IN /\ trajectory.t = "array"
     /\ IF momentum = 0
        THEN trajectory.v = <<NumPoint(from.x.v, from.y.v, from.z.v)>>
        ELSE /\ Len(trajectory.v) = 6
             /\ \A k \in 1..Len(trajectory.v) :
                  LET pt == trajectory.v[k]
                      distance == ((k - 1) * 5 * CoordOne) \div 5
                  IN /\ (pt.x.v - from.x.v) * momentum = distance * p.px.v
                     /\ (pt.y.v - from.y.v) * momentum = distance * p.py.v
                     /\ (pt.z.v - from.z.v) * momentum = distance * p.pz.v

\* C25: after validation, a particle whose input trajectory is missing or
\* has fewer than 2 points has a synthesized straight line of exactly 6
\* points spanning length 5.0 along its normalized momentum, or a single
\* point if its momentum is zero.
C25_SparseIsSynthesized ==
  (lastOp.op = "validateEvent" /\ ~validatedEvent.threw)
    => \A k \in 1..Len(eventData.particles.v) :
         C25_Sparse(eventData.particles.v[k].trajectory)
           => C25_StraightLine(validatedEvent.event.particles.v[k].trajectory,
                           eventData.particles.v[k], Origin)

\* C26: a synthesized trajectory starts at the event's vertex and runs from
\* it along the normalized momentum.
C26_StartsAtVertex ==
  (lastOp.op = "validateEvent" /\ ~validatedEvent.threw
     /\ validNumber(eventData.vertex.x) /\ validNumber(eventData.vertex.y)
     /\ validNumber(eventData.vertex.z))
    => \A k \in 1..Len(eventData.particles.v) :
         ~Truthy(eventData.particles.v[k].trajectory)
           => C25_StraightLine(validatedEvent.event.particles.v[k].trajectory,
                           eventData.particles.v[k], eventData.vertex)

\* the step is an upload that failed before anything was loaded
C27_RejectedStep ==
  /\ lastOp' # lastOp
  /\ lastOp'.op = "handleFileUpload"
  /\ lastOp'.threw

\* C27: an upload that fails validation leaves the loader's events, the
\* current event and index, the registered visuals with their visibility
\* and the hover and selection as they were, and shows an error
\* notification.
C27_FailedUploadKeepsEvent ==
  [][C27_RejectedStep =>
       /\ UNCHANGED <<events, currentEvent, currentEventIndex>>
       /\ UNCHANGED <<tracks, trackObjects, tracksGroup, animatedTracks>>
       /\ UNCHANGED <<hoveredTrack, selectedTrack>>
       /\ notification' = "error"]_vars

\* an upload has just failed while an event was displayed with a visual
\* selected, one hovered and one hidden by the type filter
C27_Witness ==
  /\ lastOp.op = "handleFileUpload"
  /\ lastOp.threw
  /\ notification = "error"
  /\ currentEvent # Null
  /\ Len(events) > 0
  /\ selectedTrack # Null
  /\ hoveredTrack # Null
  /\ \E k \in 1..Len(typeCheckboxes) : ~typeCheckboxes[k].checked
  /\ \E i \in 1..Len(trackObjects) : ~trackObjects[i].visible
  /\ \E i \in 1..Len(trackObjects) : trackObjects[i].visible

(***************************************************************************)
(* The pointer, once more                                                  *)
(***************************************************************************)
\* C31: when handleMouseMove returns, hoveredTrack is the nearest hit of the
\* sample (none when nothing is hit) and exactly one notification has been
\* emitted, hover-start on a hit and hover-end on a miss, whatever kind of
\* visual is or was hovered.
C31_MoveFullyProcessed ==
  lastOp.op = "handleMouseMove"
    => /\ hoveredTrack = lastOp.hit
       /\ Len(emitted) = 1
       /\ emitted[1].type = IF lastOp.hit # Null THEN "particleHover"
                            ELSE "particleHoverEnd"

\* C36: in every state the hovered visual, when there is one, shows the
\* highlight colour and not the appearance it was built with; in particular
\* no click takes the highlight from the visual that is still hovered.
C36_HoveredIsHighlighted ==
  (hoveredTrack # Null /\ hoveredTrack \in Ids(trackObjects))
    => /\ Visual(trackObjects, hoveredTrack).color = HighlightColor
       /\ ~IsOriginal(Visual(trackObjects, hoveredTrack))

\* C37: a pointer-move leaves the selected visual its selection appearance
\* (highlight colour, opacity 1.0, emissive tint), also a move that hovers
\* the selected visual itself or leaves it.
C37_SelectionSurvivesMoves ==
  [][(/\ MoveStep
      /\ selectedTrack # Null
      /\ selectedTrack \in Ids(trackObjects)
      /\ HasSelectHighlight(Visual(trackObjects, selectedTrack)))
       => HasSelectHighlight(Visual(trackObjects', selectedTrack))]_vars

\* C32: filterByType, filterByEnergy and filterByPt change visibility flags
\* only: hoveredTrack, selectedTrack and every visual's colour, opacity,
\* emissive tint, scale and every other field stay as they were, also when
\* the hovered or the selected visual is hidden.
C32_FiltersTouchOnlyVisibility ==
  [][lastOp'.op \in FilterOps
       => /\ hoveredTrack' = hoveredTrack
          /\ selectedTrack' = selectedTrack
          /\ Len(trackObjects') = Len(trackObjects)
          /\ \A i \in 1..Len(trackObjects) :
                [trackObjects'[i] EXCEPT !.visible = trackObjects[i].visible]
                  = trackObjects[i]]_vars

\* a filter has just hidden the hovered visual and the selected visual, two
\* different ones, which keep their highlights
C32_Witness ==
  /\ lastOp.op \in FilterOps
  /\ hoveredTrack # Null /\ selectedTrack # Null
  /\ hoveredTrack # selectedTrack
  /\ ~Visual(trackObjects, hoveredTrack).visible
  /\ ~Visual(trackObjects, selectedTrack).visible
  /\ HasHoverHighlight(Visual(trackObjects, hoveredTrack))
  /\ HasSelectHighlight(Visual(trackObjects, selectedTrack))

\* C35: in every state the UI operations reach, a registered visual is
\* visible exactly when it passes the filters held in currentFilters.
C35_VisibilityFollowsFilters ==
  \A i \in 1..Len(trackObjects) :
     trackObjects[i].visible <=> Passes(currentFilters, trackObjects[i])

(***************************************************************************)
(* The animation runs to its end                                           *)
(***************************************************************************)
\* C33: once a run has started with at least one animated visual and the
\* frames it asks for keep being delivered, the run reaches completion:
\* isAnimating is false again and trackAnimationComplete has been dispatched.
C33_RunCompletes ==
  (isAnimating /\ Len(animatedTracks) > 0)
    ~> (~isAnimating /\ AnimationComplete)

\* a run over animated visuals has just completed
C33_Witness ==
  /\ ~isAnimating
  /\ AnimationComplete
  /\ Len(animatedTracks) > 0
  /\ animationProgress = animationDuration

(***************************************************************************)
(* The loader's events                                                     *)
(***************************************************************************)
\* C38: in every state, also while a loadEvents call is awaiting and after
\* one in which every file failed, currentEvent is null or the event at
\* currentEventIndex, and with a non-empty events list currentEventIndex is
\* one of its positions.
C38_CurrentIsListed ==
  /\ currentEvent # Null
       => /\ currentEventIndex \in 0..(Len(events) - 1)
          /\ currentEvent = events[currentEventIndex + 1]
  /\ Len(events) > 0 => currentEventIndex \in 0..(Len(events) - 1)

\* nextEvent applied k times
RECURSIVE C39_Times(_, _)
C39_Times(k, dl) ==
  IF k = 0 THEN dl ELSE C39_Times(k - 1, nextEvent(dl).loader)

\* C39: with n >= 1 events and the index i in range, nextEvent moves to
\* (i + 1) mod n and previousEvent to (i - 1) mod n, each returning the
\* event it moved to; nextEvent then previousEvent, and previousEvent then
\* nextEvent, come back to i, and so do n calls of nextEvent; with no
\* events both return null and change nothing.
C39_NavigationWraps ==
  LET dl == DataLoader
      n == Len(events)
      i == currentEventIndex
      At(k) == [dl EXCEPT !.currentEventIndex = k,
                          !.currentEvent = events[k + 1]]
  IN /\ (n >= 1 /\ i \in 0..(n - 1))
          => /\ nextEvent(dl) = [loader |-> At((i + 1) % n),
                                 result |-> events[((i + 1) % n) + 1]]
             /\ previousEvent(dl) = [loader |-> At((i + n - 1) % n),
                                     result |-> events[((i + n - 1) % n) + 1]]
             /\ previousEvent(nextEvent(dl).loader).loader = At(i)
             /\ nextEvent(previousEvent(dl).loader).loader = At(i)
             /\ C39_Times(n, dl) = At(i)
     /\ n = 0
          => /\ nextEvent(dl) = [loader |-> dl, result |-> Null]
             /\ previousEvent(dl) = [loader |-> dl, result |-> Null]

\* previousEvent has just wrapped around from the first of three events to
\* the last
C39_Witness ==
  /\ lastOp.op = "previousEvent"
  /\ Len(events) = 3
  /\ currentEventIndex = 2
  /\ currentEvent = events[3]

\* the files of a list that loaded, in the order of the list
RECURSIVE C40_Loaded(_)
C40_Loaded(files) ==
  IF files = <<>> THEN <<>>
  ELSE IF Head(files) # Null THEN <<Head(files)>> \o C40_Loaded(Tail(files))
       ELSE C40_Loaded(Tail(files))

\* C40: when a loadEvents call finishes, the events list (which the call
\* returns) holds exactly the events of that call's files that loaded, in
\* the order of the file list, also with other loadEvents calls or an
\* upload in flight.
C40_EventsOfTheCall ==
  lastOp.op = "loadEvents"
    => /\ returned.events = C40_Loaded(returned.files)
       /\ events = C40_Loaded(returned.files)

(***************************************************************************)
(* Uploads that end with an error                                          *)
(***************************************************************************)
\* C34: an upload that adds an event to the loader's list ends with the
\* success notification, and an upload that ends with the error
\* notification leaves the list, the current event and the displayed tracks
\* as they were, for JSON and for CSV files.
C34_FailedUploadChangesNothing ==
  [][/\ Len(events') > Len(events) => notification' = "success"
     /\ (notification' = "error"
         /\ lastOp'.op \in {"handleFileUpload", "loadEventData"}
         /\ (lastOp'.op = "loadEventData" => Len(events') > Len(events)))
          => /\ events' = events
             /\ currentEvent' = currentEvent
             /\ currentEventIndex' = currentEventIndex
             /\ tracks' = tracks
             /\ trackObjects' = trackObjects]_vars

====
